---------------------------- MODULE Spec2Model ----------------------------
(***************************************************************************)
(* The calculator of assignment04: a line of tokens is matched by the      *)
(* grammar into pest pairs, parse_command / parse_expr_pair fold the pairs  *)
(* into an Expression with pest's PrecClimber, and Context::calc_command    *)
(* evaluates the Command against the session's bindings.                   *)
(***************************************************************************)
EXTENDS Integers, Sequences, FiniteSets, TLC

VARIABLES
    anonymous_counter,  \* Context.anonymous_counter            (context.rs:13)
    variables,          \* Context.variables: name -> value     (context.rs:14)
    line,               \* the line handed to parse_command by the last step
    command,            \* what parse_command returned for it
    result,             \* what calc_command returned for it ("None" before / on a parse error)
    nlines,             \* lines processed so far in this session
    anon_seen,          \* observer: commands without a target handed to calc_command
    all_ok,             \* observer: every line so far parsed and evaluated successfully
    last_write,         \* observer: name -> value of the latest successful return under that name
    files,              \* MockStorage.files: name -> size     (mock_storage.rs:16)
    capacity,           \* MockStorage.capacity                (mock_storage.rs:21)
    overflow_checks,    \* the build: usize arithmetic panics on overflow, or wraps
    upload_args,        \* the name and size given to the last upload
    upload_ret,         \* what the last upload returned
    edges,              \* Node.edges of every node: node -> sequence of nodes (graph.rs:32)
    nodes,              \* SubGraph.nodes: sequence of nodes   (graph.rs:58)
    graph_call,         \* the last call on a node or on the subgraph
    graph_ret,          \* what it returned
    inner_vec,          \* the Vec<i64> behind remove_duplicate's `inner: &mut Vec<i64>`
    inner_arg,          \* observer: that vector as it was when remove_duplicate was called
    gcd_args,           \* the lhs and rhs given to gcd
    gcd_ret,            \* what gcd returned for them
    org,                \* organize's `org`: department -> set of persons
    org_cmd,            \* `parts` of the command the last iteration of organize's loop matched
    list_head,          \* SinglyLinkedList.head               (linked_list.rs:28)
    list_ref,           \* observer: the reference sequence, under the same operations
    list_call,          \* the last call on the list
    list_ret,           \* what it returned
    ref_ret             \* observer: what the same call returned on the reference sequence

calc_vars == <<anonymous_counter, variables, line, command, result, nlines,
               anon_seen, all_ok, last_write>>
storage_vars == <<files, capacity, overflow_checks, upload_args, upload_ret>>
graph_vars == <<edges, nodes, graph_call, graph_ret>>
exercise_vars == <<inner_vec, inner_arg, gcd_args, gcd_ret>>
organize_vars == <<org, org_cmd>>
list_vars == <<list_head, list_ref, list_call, list_ret, ref_ret>>
assignment_vars == <<exercise_vars, organize_vars, list_vars>>

vars == <<calc_vars, storage_vars, graph_vars, assignment_vars>>

(***************************************************************************)
(* Bounds of the model.                                                    *)
(***************************************************************************)
\* operators in a flat, parenthesis-free expression of the parser specification
MaxOps == 3
\* lines processed in one session
MaxCmds == 3
\* largest numerator / denominator magnitude of a modelled f64 value
MaxMag == 30000
\* bits of a usize in the storage model
UsizeBits == 3
\* edges in the graph, over all nodes
MaxEdges == 3

\* the nodes created with NodeHandle::new
NodeIds == {"n1", "n2", "n3"}
\* the names files are uploaded under
FileNames == {"a", "b"}

(***************************************************************************)
(* Tokens. A token is the pest rule that matched and the matched text as a *)
(* sequence of one-character strings; whitespace is already skipped.       *)
(***************************************************************************)
Tok(rule, text) == [rule |-> rule, text |-> text]

Num(ds)  == Tok("num", ds)
Var(cs)  == Tok("var", cs)
ADD      == Tok("add", <<"+">>)
SUB      == Tok("subtract", <<"-">>)
MUL      == Tok("multiply", <<"*">>)
DIV      == Tok("divide", <<"/">>)
POW      == Tok("power", <<"^">>)
LP       == Tok("lparen", <<"(">>)
RP       == Tok("rparen", <<")">>)
ASSIGN   == Tok("assign", <<"=">>)

OpToks == {ADD, SUB, MUL, DIV, POW}
OpRules == {"add", "subtract", "multiply", "divide", "power"}

(***************************************************************************)
(* Grammar (syntax.pest). A pair is the rule, the matched text and the     *)
(* inner pairs. expr is flat: atom (op atom)*, the atom rule is silent, so *)
(* a parenthesised atom shows up as a nested expr pair.                    *)
(***************************************************************************)
Pair(rule, text, inner) == [rule |-> rule, text |-> text, inner |-> inner]

NoMatch == [ok |-> FALSE, pairs |-> <<>>, pos |-> 0]
Match(pairs, pos) == [ok |-> TRUE, pairs |-> pairs, pos |-> pos]

Leaf(tok) == Pair(tok.rule, tok.text, <<>>)

RECURSIVE GrammarAtom(_, _), GrammarExpr(_, _), GrammarTail(_, _, _)

\* "(" expr ")": the expr matched at e, then the closing parenthesis
CloseParen(toks, e) ==
    IF e.ok /\ e.pos <= Len(toks) /\ toks[e.pos].rule = "rparen"
    THEN Match(e.pairs, e.pos + 1)
    ELSE NoMatch

\* atom := number | identifier | "(" expr ")"
GrammarAtom(toks, i) ==
    IF i > Len(toks) THEN NoMatch
    ELSE IF toks[i].rule \in {"num", "var"} THEN Match(<<Leaf(toks[i])>>, i + 1)
    ELSE IF toks[i].rule = "lparen" THEN CloseParen(toks, GrammarExpr(toks, i + 1))
    ELSE NoMatch

\* one more (op atom), a being the match of the atom after the operator at i: a
\* repetition stops, without failing, in front of an operator that no atom follows
TailAtom(toks, i, inner, a) ==
    IF a.ok
    THEN GrammarTail(toks, a.pos, inner \o <<Leaf(toks[i])>> \o a.pairs)
    ELSE Match(inner, i)

\* (op atom)*
GrammarTail(toks, i, inner) ==
    IF i <= Len(toks) /\ toks[i].rule \in OpRules
    THEN TailAtom(toks, i, inner, GrammarAtom(toks, i + 1))
    ELSE Match(inner, i)

WrapExpr(t) == Match(<<Pair("expr", <<>>, t.pairs)>>, t.pos)

ExprTail(toks, a) ==
    IF a.ok THEN WrapExpr(GrammarTail(toks, a.pos, a.pairs)) ELSE NoMatch

\* expr := atom (op atom)*
GrammarExpr(toks, i) == ExprTail(toks, GrammarAtom(toks, i))

HasTarget(toks) == Len(toks) >= 2 /\ toks[1].rule = "var" /\ toks[2].rule = "assign"

EndOfInput(toks, head, e) ==
    IF e.ok /\ e.pos = Len(toks) + 1
    THEN Match(<<Pair("command", <<>>, head \o e.pairs \o <<Pair("EOI", <<>>, <<>>)>>)>>, e.pos)
    ELSE NoMatch

\* command := SOI (identifier "=")? expr EOI
GrammarCommand(toks) ==
    IF HasTarget(toks)
    THEN EndOfInput(toks, <<Leaf(toks[1])>>, GrammarExpr(toks, 3))
    ELSE EndOfInput(toks, <<>>, GrammarExpr(toks, 1))

ParseOutcome(m) ==
    IF m.ok THEN [tag |-> "Ok", pairs |-> m.pairs] ELSE [tag |-> "Err", msg |-> "syntax error"]

\* SyntaxParser::parse(Rule::command, line)
SyntaxParser_parse(toks) == ParseOutcome(GrammarCommand(toks))

(***************************************************************************)
(* Values. An f64 is modelled by the fraction <<n, d>> in lowest terms,    *)
(* d > 0, and only where f64 arithmetic is exact: d a power of two and     *)
(* both magnitudes within MaxMag. Anything else is "Unmodelled".           *)
(***************************************************************************)
Abs(x) == IF x < 0 THEN -x ELSE x

RECURSIVE Gcd(_, _)
Gcd(a, b) == IF b = 0 THEN a ELSE Gcd(b, a % b)

RECURSIVE IsPow2(_)
IsPow2(d) == d = 1 \/ (d > 1 /\ d % 2 = 0 /\ IsPow2(d \div 2))

Unmodelled == [tag |-> "Unmodelled"]
Ok(v) == [tag |-> "Ok", val |-> v]
Err(msg) == [tag |-> "Err", msg |-> msg]

Representable(n, d) ==
    IF Abs(n) <= MaxMag /\ d <= MaxMag /\ IsPow2(d) THEN Ok(<<n, d>>) ELSE Unmodelled

Lowest(n, d, g) == Representable(n \div g, d \div g)

\* the f64 n/d (d /= 0), or Unmodelled when it is not exactly representable
Frac(n, d) == Lowest(IF d < 0 THEN -n ELSE n, Abs(d), Gcd(Abs(n), Abs(d)))

Zero == <<0, 1>>
One == <<1, 1>>

FAdd(a, b) == Frac(a[1] * b[2] + b[1] * a[2], a[2] * b[2])
FSub(a, b) == Frac(a[1] * b[2] - b[1] * a[2], a[2] * b[2])
FMul(a, b) == Frac(a[1] * b[1], a[2] * b[2])
FDiv(a, b) == Frac(a[1] * b[2], a[2] * b[1])

RECURSIVE PowAcc(_, _, _)
PowNext(r, a, k) == IF r.tag = "Ok" THEN PowAcc(r.val, a, k - 1) ELSE r

\* acc * a^k for an integer k >= 0, multiplying k times and stopping once out of range
PowAcc(acc, a, k) == IF k = 0 THEN Ok(acc) ELSE PowNext(FMul(acc, a), a, k)

\* a^k for an integer k >= 0; the bases whose powers never leave the range are closed forms
PowNat(a, k) ==
    IF k = 0 \/ a = One THEN Ok(One)
    ELSE IF a = Zero THEN Ok(Zero)
    ELSE IF a = <<-1, 1>> THEN Ok(IF k % 2 = 0 THEN One ELSE a)
    ELSE PowAcc(One, a, k)

Reciprocal(r, negative) == IF negative /\ r.tag = "Ok" THEN FDiv(One, r.val) ELSE r

\* f64::powf on the exactly representable cases: an integer exponent, and no 0^negative
FPow(a, b) ==
    IF b[2] # 1 \/ (b[1] < 0 /\ a[1] = 0) THEN Unmodelled
    ELSE Reciprocal(PowNat(a, Abs(b[1])), b[1] < 0)

(***************************************************************************)
(* Text conversions.                                                       *)
(***************************************************************************)
Digits == <<"0", "1", "2", "3", "4", "5", "6", "7", "8", "9">>
DigitVal(c) == (CHOOSE i \in 1..10 : Digits[i] = c) - 1

\* str::parse::<f64>() of an unsigned integer literal
RECURSIVE ParseF64(_)
ParseF64(text) ==
    IF Len(text) = 0 THEN Zero
    ELSE LET hi == ParseF64(SubSeq(text, 1, Len(text) - 1)) IN
         <<hi[1] * 10 + DigitVal(text[Len(text)]), 1>>

\* Pair::as_str().to_string()
RECURSIVE AsString(_)
AsString(text) == IF Len(text) = 0 THEN "" ELSE text[1] \o AsString(Tail(text))

\* usize::to_string()
UsizeToString(n) == ToString(n)

(***************************************************************************)
(* syntax.rs: Expression, BinOp, Command.                                  *)
(***************************************************************************)
ENum(v) == [tag |-> "Num", n |-> v]
EVariable(name) == [tag |-> "Variable", name |-> name]
EBinOp(op, lhs, rhs) == [tag |-> "BinOp", op |-> op, lhs |-> lhs, rhs |-> rhs]

Command(variable, expression) == [variable |-> variable, expression |-> expression]
\* Option<String>
None == <<>>
Some(x) == <<x>>

(***************************************************************************)
(* parser.rs                                                               *)
(***************************************************************************)
\* the table with the two lower tiers in the other order
climber_swapped ==
    << {[rule |-> "multiply", assoc |-> "Left"], [rule |-> "divide", assoc |-> "Left"]},
       {[rule |-> "add", assoc |-> "Left"], [rule |-> "subtract", assoc |-> "Left"]},
       {[rule |-> "power", assoc |-> "Right"]} >>

\* the table with Power left-associative like the others
climber_power_left ==
    << {[rule |-> "add", assoc |-> "Left"], [rule |-> "subtract", assoc |-> "Left"]},
       {[rule |-> "multiply", assoc |-> "Left"], [rule |-> "divide", assoc |-> "Left"]},
       {[rule |-> "power", assoc |-> "Left"]} >>

\* the operator table handed to PrecClimber::new, lowest precedence first
climber ==
    << {[rule |-> "add", assoc |-> "Left"], [rule |-> "subtract", assoc |-> "Left"]},
       {[rule |-> "multiply", assoc |-> "Left"], [rule |-> "divide", assoc |-> "Left"]},
       {[rule |-> "power", assoc |-> "Right"]} >>

\* PrecClimber::new: the i-th entry of the table gets precedence i
ClimberRules == UNION {{o.rule : o \in climber[i]} : i \in 1..Len(climber)}
ClimberOps ==
    [r \in ClimberRules |->
        LET Has(i) == \E o \in climber[i] : o.rule = r
            i == CHOOSE j \in 1..Len(climber) :
                     Has(j) /\ \A k \in 1..Len(climber) : Has(k) => k <= j
        IN [prec |-> i, assoc |-> (CHOOSE o \in climber[i] : o.rule = r).assoc]]

PrecOf(rule) == ClimberOps[rule].prec
AssocOf(rule) == ClimberOps[rule].assoc

Panic == [tag |-> "Panic"]
At(val, pos) == [val |-> val, pos |-> pos]

\* the match without the arm for Rule::power
rule_to_binop_nopower(rule) ==
    CASE rule = "add" -> Ok("Add")
      [] rule = "subtract" -> Ok("Subtract")
      [] rule = "multiply" -> Ok("Multiply")
      [] rule = "divide" -> Ok("Divide")
      [] OTHER -> Err("unexpected operator rule")

rule_to_binop(rule) ==
    CASE rule = "add" -> Ok("Add")
      [] rule = "subtract" -> Ok("Subtract")
      [] rule = "multiply" -> Ok("Multiply")
      [] rule = "divide" -> Ok("Divide")
      [] rule = "power" -> Ok("Power")
      [] OTHER -> Err("unexpected operator rule")

MakeBinOp(op, lhs, rhs) == IF op.tag = "Ok" THEN Ok(EBinOp(op.val, lhs, rhs)) ELSE op

\* the closure with the operands of the node exchanged
Infix_swapped(lhs, op, rhs) ==
    IF lhs.tag # "Ok" THEN lhs
    ELSE IF rhs.tag # "Ok" THEN rhs
    ELSE MakeBinOp(rule_to_binop(op.rule), rhs.val, lhs.val)

\* the infix closure given to climb: lhs?, rhs?, rule_to_binop(op.as_rule())?
Infix(lhs, op, rhs) ==
    IF lhs.tag # "Ok" THEN lhs
    ELSE IF rhs.tag # "Ok" THEN rhs
    ELSE MakeBinOp(rule_to_binop(op.rule), lhs.val, rhs.val)

RECURSIVE parse_expr_pair(_), parse_primary(_), climb_rec(_, _, _, _), climb_rhs(_, _, _, _)

\* the test of the inner loop: the next operator binds tighter than the current
\* one, or as tight and is right-associative
Absorbs(new_prec, assoc, prec) == new_prec > prec \/ (assoc = "Right" /\ new_prec = prec)

RhsAgain(r, prec, pairs) ==
    IF r.val.tag = "Panic" THEN r ELSE climb_rhs(r.val, prec, pairs, r.pos)

\* PrecClimber::climb_rec, inner loop: while the next operator is absorbed, the
\* right operand becomes the left operand of a climb at that operator's precedence
climb_rhs(rhs, prec, pairs, pos) ==
    IF pos > Len(pairs) THEN At(rhs, pos)
    ELSE IF pairs[pos].rule \notin DOMAIN ClimberOps THEN At(Panic, Len(pairs) + 1)
    ELSE IF Absorbs(PrecOf(pairs[pos].rule), AssocOf(pairs[pos].rule), prec)
    THEN RhsAgain(climb_rec(rhs, PrecOf(pairs[pos].rule), pairs, pos), prec, pairs)
    ELSE At(rhs, pos)

RecAgain(lhs, min_prec, pairs, pos, r) ==
    IF r.val.tag = "Panic" THEN r
    ELSE climb_rec(Infix(lhs, pairs[pos], r.val), min_prec, pairs, r.pos)

\* PrecClimber::climb_rec, outer loop: consume the operators of precedence >= min_prec
climb_rec(lhs, min_prec, pairs, pos) ==
    IF pos > Len(pairs) THEN At(lhs, pos)
    ELSE IF pairs[pos].rule \notin DOMAIN ClimberOps \/ pos + 1 > Len(pairs)
    THEN At(Panic, Len(pairs) + 1)
    ELSE IF PrecOf(pairs[pos].rule) >= min_prec
    THEN RecAgain(lhs, min_prec, pairs, pos,
                  climb_rhs(parse_primary(pairs[pos + 1]), PrecOf(pairs[pos].rule),
                            pairs, pos + 2))
    ELSE At(lhs, pos)

\* PrecClimber::climb
Climb(pairs) ==
    IF Len(pairs) = 0 THEN Panic
    ELSE climb_rec(parse_primary(pairs[1]), 0, pairs, 2).val

parse_expr_pair(pair) ==
    IF pair.rule # "expr" THEN Err("expected expr")
    ELSE Climb(pair.inner)

\* a primary that takes only the first operand of a parenthesised expression
parse_primary_first(pair) ==
    CASE pair.rule = "num" -> Ok(ENum(ParseF64(pair.text)))
      [] pair.rule = "var" -> Ok(EVariable(AsString(pair.text)))
      [] pair.rule = "expr" -> parse_primary(pair.inner[1])
      [] OTHER -> Err("unexpected primary")

parse_primary(pair) ==
    CASE pair.rule = "num" -> Ok(ENum(ParseF64(pair.text)))
      [] pair.rule = "var" -> Ok(EVariable(AsString(pair.text)))
      [] pair.rule = "expr" -> parse_expr_pair(pair)
      [] OTHER -> Err("unexpected primary")

\* the pairs of the command, or the pairs themselves when `command` is silent,
\* without EOI
TopPairs(pairs) ==
    SelectSeq(IF pairs[1].rule = "command" THEN pairs[1].inner ELSE pairs,
              LAMBDA p : p.rule # "EOI")

MakeCommand(variable, e) == IF e.tag = "Ok" THEN Ok(Command(variable, e.val)) ELSE e

\* the match on top_pairs: [var, expr], [expr], or anything else
MatchTop(top_pairs) ==
    IF \/ Len(top_pairs) = 2 /\ top_pairs[1].rule = "var" /\ top_pairs[2].rule = "expr"
       \/ Len(top_pairs) = 1 /\ top_pairs[1].rule = "expr"
    THEN MakeCommand(IF Len(top_pairs) = 2 THEN Some(AsString(top_pairs[1].text)) ELSE None,
                     parse_expr_pair(top_pairs[Len(top_pairs)]))
    ELSE Err("unexpected command shape")

\* a parse_command that answers a line the grammar rejects with a Command for 0
FromParsed_besteffort(parsed) ==
    IF parsed.tag # "Ok" THEN Ok(Command(None, ENum(Zero)))
    ELSE IF Len(parsed.pairs) = 0 THEN Err("empty parse result")
    ELSE MatchTop(TopPairs(parsed.pairs))

FromParsed(parsed) ==
    IF parsed.tag # "Ok" THEN parsed
    ELSE IF Len(parsed.pairs) = 0 THEN Err("empty parse result")
    ELSE MatchTop(TopPairs(parsed.pairs))

parse_command(ln) == FromParsed(SyntaxParser_parse(ln))

(***************************************************************************)
(* context.rs                                                              *)
(***************************************************************************)
Context(counter, bindings) == [anonymous_counter |-> counter, variables |-> bindings]

\* Context::new(): Self::default()
Context_new == Context(0, <<>>)

\* an insert that keeps the value of a key already present
Insert_keep(map, k, v) ==
    [x \in DOMAIN map \cup {k} |-> IF x \in DOMAIN map THEN map[x] ELSE v]

\* an insert that drops every other key
Insert_only(map, k, v) == [x \in {k} |-> v]

\* HashMap::insert
Insert(map, k, v) == [x \in DOMAIN map \cup {k} |-> IF x = k THEN v ELSE map[x]]

\* the match with Power computed as a product
ApplyOp_powmul(op, left_val, right_val) ==
    CASE op = "Add" -> FAdd(left_val, right_val)
      [] op = "Subtract" -> FSub(left_val, right_val)
      [] op = "Multiply" -> FMul(left_val, right_val)
      [] op = "Divide" -> IF right_val = Zero THEN Err("Error") ELSE FDiv(left_val, right_val)
      [] op = "Power" -> FMul(left_val, right_val)

\* the match with the operands of Subtract exchanged
ApplyOp_rsub(op, left_val, right_val) ==
    CASE op = "Add" -> FAdd(left_val, right_val)
      [] op = "Subtract" -> FSub(right_val, left_val)
      [] op = "Multiply" -> FMul(left_val, right_val)
      [] op = "Divide" -> IF right_val = Zero THEN Err("Error") ELSE FDiv(left_val, right_val)
      [] op = "Power" -> FPow(left_val, right_val)

\* the match with the zero test of Divide made on the left operand
ApplyOp_leftzero(op, left_val, right_val) ==
    CASE op = "Add" -> FAdd(left_val, right_val)
      [] op = "Subtract" -> FSub(left_val, right_val)
      [] op = "Multiply" -> FMul(left_val, right_val)
      [] op = "Divide" -> IF left_val = Zero THEN Err("Error") ELSE FDiv(left_val, right_val)
      [] op = "Power" -> FPow(left_val, right_val)

\* the match on `op`
ApplyOp(op, left_val, right_val) ==
    CASE op = "Add" -> FAdd(left_val, right_val)
      [] op = "Subtract" -> FSub(left_val, right_val)
      [] op = "Multiply" -> FMul(left_val, right_val)
      [] op = "Divide" -> IF right_val = Zero THEN Err("Error") ELSE FDiv(left_val, right_val)
      [] op = "Power" -> FPow(left_val, right_val)

RECURSIVE calc_expression(_, _)

\* let right_val = self.calc_expression(rhs)?; then the operator
WithRight(op, left_val, right_val) ==
    IF right_val.tag # "Ok" THEN right_val ELSE ApplyOp(op, left_val, right_val.val)

\* both operands evaluated before either `?`, the right result tested first
RightFirst(op, left_val, right_val) ==
    IF right_val.tag # "Ok" THEN right_val
    ELSE IF left_val.tag # "Ok" THEN left_val
    ELSE ApplyOp(op, left_val.val, right_val.val)

WithLeft_rightfirst(self, expression, left_val) ==
    RightFirst(expression.op, left_val, calc_expression(self, expression.rhs))

\* let left_val = self.calc_expression(lhs)?; then the right operand
WithLeft(self, expression, left_val) ==
    IF left_val.tag # "Ok" THEN left_val
    ELSE WithRight(expression.op, left_val.val, calc_expression(self, expression.rhs))

\* a lookup that gives 0.0 for a name that is not bound
calc_expression_default(self, expression) ==
    CASE expression.tag = "Num" -> Ok(expression.n)
      [] expression.tag = "Variable" ->
            IF expression.name \in DOMAIN self.variables
            THEN Ok(self.variables[expression.name])
            ELSE Ok(Zero)
      [] expression.tag = "BinOp" ->
            WithLeft(self, expression, calc_expression(self, expression.lhs))

calc_expression(self, expression) ==
    CASE expression.tag = "Num" -> Ok(expression.n)
      [] expression.tag = "Variable" ->
            IF expression.name \in DOMAIN self.variables
            THEN Ok(self.variables[expression.name])
            ELSE Err("undefined variable: " \o expression.name)
      [] expression.tag = "BinOp" ->
            WithLeft(self, expression, calc_expression(self, expression.lhs))

\* the naming with the counter incremented before the name is formed
NameResult_preinc(self, cmd) ==
    IF cmd.variable # None
    THEN [name |-> cmd.variable[1], self |-> self]
    ELSE [name |-> "$" \o UsizeToString(self.anonymous_counter + 1),
          self |-> Context(self.anonymous_counter + 1, self.variables)]

\* the naming with the counter incremented for every command
NameResult_always(self, cmd) ==
    [name |-> IF cmd.variable # None THEN cmd.variable[1]
              ELSE "$" \o UsizeToString(self.anonymous_counter),
     self |-> Context(self.anonymous_counter + 1, self.variables)]

\* the naming without the increment: every anonymous command finds the same counter
NameResult_reuse(self, cmd) ==
    IF cmd.variable # None
    THEN [name |-> cmd.variable[1], self |-> self]
    ELSE [name |-> "$" \o UsizeToString(self.anonymous_counter), self |-> self]

\* the naming with the counter left out of the name: every anonymous result is "$0"
NameResult_first(self, cmd) ==
    IF cmd.variable # None
    THEN [name |-> cmd.variable[1], self |-> self]
    ELSE [name |-> "$" \o UsizeToString(0),
          self |-> Context(self.anonymous_counter + 1, self.variables)]

\* the match on command.variable: the name the result goes under, and the
\* context after naming it
NameResult(self, cmd) ==
    IF cmd.variable # None
    THEN [name |-> cmd.variable[1], self |-> self]
    ELSE [name |-> "$" \o UsizeToString(self.anonymous_counter),
          self |-> Context(self.anonymous_counter + 1, self.variables)]

\* the insert done before the `?`: a failed command binds its name to 0.0
Store_placeholder(named, result_exp) ==
    IF result_exp.tag # "Ok"
    THEN [self |-> Context(named.self.anonymous_counter,
                           Insert(named.self.variables, named.name, Zero)),
          ret |-> result_exp]
    ELSE [self |-> Context(named.self.anonymous_counter,
                           Insert(named.self.variables, named.name, result_exp.val)),
          ret |-> Ok(<<named.name, result_exp.val>>)]

\* calc_expression(..)? and insert: the context left behind and the value returned
Store(named, result_exp) ==
    IF result_exp.tag # "Ok"
    THEN [self |-> named.self, ret |-> result_exp]
    ELSE [self |-> Context(named.self.anonymous_counter,
                           Insert(named.self.variables, named.name, result_exp.val)),
          ret |-> Ok(<<named.name, result_exp.val>>)]

\* the evaluation with the name of the result already bound, to 0.0
Named_prebound(named, expression) ==
    Store(named,
          calc_expression(Context(named.self.anonymous_counter,
                                  Insert(named.self.variables, named.name, Zero)),
                          expression))

Named(named, expression) == Store(named, calc_expression(named.self, expression))

\* a calc_command that restores the context it was given when the command fails
Rollback(self, out) == IF out.ret.tag = "Err" THEN [self |-> self, ret |-> out.ret] ELSE out
calc_command_rollback(self, cmd) == Rollback(self, Named(NameResult(self, cmd), cmd.expression))

\* calc_command: name the result, evaluate, store
calc_command(self, cmd) == Named(NameResult(self, cmd), cmd.expression)

(***************************************************************************)
(* Input lines.                                                            *)
(***************************************************************************)
N(c) == <<Num(<<c>>)>>
V(c) == <<Var(<<c>>)>>
TEN == <<Num(<<"1", "0">>)>>

\* a op b for every operator of O, and for every operator
BinWith(O, A, B) == {a \o <<o>> \o b : a \in A, o \in O, b \in B}
Bin(A, B) == BinWith(OpToks, A, B)
Paren(S) == {<<LP>> \o e \o <<RP>> : e \in S}
Assign(T, S) == {t \o <<ASSIGN>> \o e : t \in T, e \in S}

\* atom (op atom)* with at most k operators
RECURSIVE Flat(_, _)
Flat(A, k) == IF k = 0 THEN A ELSE LET F == Flat(A, k - 1) IN F \cup Bin(F, A)

\* every token sequence of length at most k
RECURSIVE Raw(_, _)
Raw(T, k) == IF k = 0 THEN {<<>>} ELSE LET R == Raw(T, k - 1) IN R \cup {r \o <<t>> : r \in R, t \in T}

NumAtoms == {N("2"), N("3")}
MixedAtoms == {N("0"), N("2"), N("3"), TEN, V("x")}
P1 == Paren(Bin(NumAtoms, NumAtoms))
P2 == Paren(Bin(P1, NumAtoms) \cup Bin(NumAtoms, P1))

\* one parenthesised operand among up to three, two parenthesised operands, and
\* parentheses nested twice
NestedLines ==
    P1 \cup P2
    \cup Bin(P1, NumAtoms) \cup Bin(NumAtoms, P1) \cup Bin(P1, P1)
    \cup Bin(Bin(P1, NumAtoms), NumAtoms) \cup Bin(Bin(NumAtoms, P1), NumAtoms)
    \cup Bin(Bin(NumAtoms, NumAtoms), P1)
    \cup Bin(P2, NumAtoms) \cup Bin(NumAtoms, P2)

MixedLines ==
    LET E1 == MixedAtoms \cup Bin(MixedAtoms, MixedAtoms) IN
    E1 \cup Bin(Bin(MixedAtoms, MixedAtoms), MixedAtoms) \cup Assign({V("x")}, E1)

RawLines == Raw({Num(<<"2">>), Var(<<"x">>), ADD, POW, LP, RP, ASSIGN}, 3)

\* the lines of the parser specification
ParseExamples ==
    { N("1") \o <<ADD>> \o N("2") \o <<MUL>> \o N("3"),
      N("2") \o <<MUL>> \o N("3") \o <<ADD>> \o N("1"),
      N("1") \o <<SUB>> \o N("2") \o <<SUB>> \o N("3"),
      N("2") \o <<POW>> \o N("3") \o <<POW>> \o N("2") }

\* an assignment and a sum followed by an operand, a parenthesis closed twice
\* and one opened twice
RejectExamples ==
    { <<Var(<<"x">>), ASSIGN, Num(<<"2">>), Num(<<"2">>)>>,
      <<Num(<<"2">>), ADD, Num(<<"2">>), Var(<<"x">>)>>,
      <<LP, Num(<<"2">>), RP, RP>>,
      <<LP, LP, Num(<<"2">>), RP>> }

ParseLines ==
    Flat(NumAtoms, MaxOps) \cup NestedLines \cup MixedLines \cup RawLines \cup ParseExamples
    \cup RejectExamples

SessionAtoms == {N("0"), N("3"), V("v")}
SessionExprs == SessionAtoms \cup BinWith({SUB, DIV}, SessionAtoms, SessionAtoms)
ExampleLines ==
    { N("3") \o <<ADD>> \o N("5"), V("v") \o <<ASSIGN>> \o N("3") \o <<SUB>> \o N("2"),
      N("3") \o <<POW>> \o N("2"), V("v") \o <<ADD>> \o TEN,
      V("v") \o <<ASSIGN>> \o V("v") \o <<ADD>> \o N("1"),
      N("3") \o <<DIV, LP>> \o N("3") \o <<SUB>> \o N("3") \o <<RP>>,
      <<>>, N("2") \o <<ADD>>, <<LP>> \o N("2") }

\* the lines of a session
SessionLines == SessionExprs \cup Assign({V("v")}, SessionExprs) \cup ExampleLines

(***************************************************************************)
(* The session: the front end reads a line, parses it, and hands the       *)
(* Command to the session's Context.                                       *)
(***************************************************************************)
Pending == [tag |-> "Pending"]
Nothing == [tag |-> "None"]

\* the calculator before its first line
CalcInit ==
    /\ anonymous_counter = Context_new.anonymous_counter
    /\ variables = Context_new.variables
    /\ line = <<>>
    /\ command = Nothing
    /\ result = Nothing
    /\ nlines = 0
    /\ anon_seen = 0
    /\ all_ok = TRUE
    /\ last_write = <<>>

\* no storage is in use: the calculator and the graph run without one
StorageIdle ==
    /\ files = <<>>
    /\ capacity = 0
    /\ overflow_checks = TRUE
    /\ upload_args = Nothing
    /\ upload_ret = Nothing

\* every node as NodeHandle::new leaves it, and SubGraph::new()
GraphInit ==
    /\ edges = [n \in NodeIds |-> <<>>]
    /\ nodes = <<>>
    /\ graph_call = [op |-> "new", self |-> "subgraph", arg |-> "none"]
    /\ graph_ret = Nothing

\* no exercise function has been called
ExercisesIdle ==
    /\ inner_vec = <<>>
    /\ inner_arg = Nothing
    /\ gcd_args = Nothing
    /\ gcd_ret = Nothing

\* organize's table before its loop: HashMap::new()
OrganizeInit ==
    /\ org = <<>>
    /\ org_cmd = <<>>

\* SinglyLinkedList::new()
ListInit ==
    /\ list_head = None
    /\ list_ref = <<>>
    /\ list_call = [op |-> "new", arg |-> "none"]
    /\ list_ret = Nothing
    /\ ref_ret = Nothing

AssignmentsInit == ExercisesIdle /\ OrganizeInit /\ ListInit

Init == CalcInit /\ StorageIdle /\ GraphInit /\ AssignmentsInit

\* the session after calc_command returned `out` for cmd
Commit(cmd, out) ==
    /\ out.ret.tag # "Unmodelled"
    /\ anonymous_counter' = out.self.anonymous_counter
    /\ variables' = out.self.variables
    /\ result' = out.ret
    /\ anon_seen' = IF cmd.variable = None THEN anon_seen + 1 ELSE anon_seen
    /\ all_ok' = (all_ok /\ out.ret.tag = "Ok")
    /\ last_write' = IF out.ret.tag = "Ok"
                     THEN Insert(last_write, out.ret.val[1], out.ret.val[2])
                     ELSE last_write

\* context.calc_command(&cmd) on the session's context, for the commands whose
\* values the model represents
Evaluate(cmd) == Commit(cmd, calc_command(Context(anonymous_counter, variables), cmd))

\* a rejected line never reaches the context
Reject ==
    /\ result' = Nothing
    /\ all_ok' = FALSE
    /\ UNCHANGED <<anonymous_counter, variables, anon_seen, last_write>>

Process(ln, cmd) ==
    /\ line' = ln
    /\ command' = cmd
    /\ nlines' = nlines + 1
    /\ IF cmd.tag = "Ok" THEN Evaluate(cmd.val) ELSE Reject
    /\ UNCHANGED <<storage_vars, graph_vars, assignment_vars>>

\* one line of the session: parse_command(line), then calc_command on its Command
ProcessLine(ln) == Process(ln, parse_command(ln))

SessionStep == nlines < MaxCmds /\ \E ln \in SessionLines : ProcessLine(ln)

Next == SessionStep

\* a session of up to MaxCmds lines
Spec == Init /\ [][Next]_vars

Read(ln, cmd) ==
    /\ line' = ln
    /\ command' = cmd
    /\ nlines' = nlines + 1
    /\ result' = IF cmd.tag = "Ok" THEN Pending ELSE Nothing
    /\ all_ok' = (all_ok /\ cmd.tag = "Ok")
    /\ UNCHANGED <<anonymous_counter, variables, anon_seen, last_write>>
    /\ UNCHANGED <<storage_vars, graph_vars, assignment_vars>>

\* parse_command(line) alone
ReadLine(ln) == Read(ln, parse_command(ln))

\* calc_command on the Command just parsed
CalcCommand ==
    /\ result.tag = "Pending"
    /\ Evaluate(command.val)
    /\ UNCHANGED <<line, command, nlines>>
    /\ UNCHANGED <<storage_vars, graph_vars, assignment_vars>>

ParseRead == nlines = 0 /\ \E ln \in ParseLines : ReadLine(ln)

NextParse == ParseRead \/ CalcCommand

\* one line, from the larger set, parsed and then evaluated on a fresh context
SpecParse == Init /\ [][NextParse]_vars

(***************************************************************************)
(* The grammar of the specification, section 4.1, as a recursive descent   *)
(* that builds the Expression itself:                                      *)
(*   expr := term (("+"|"-") term)*     term := power (("*"|"/") power)*   *)
(*   power := atom ("^" power)?         atom := number | identifier | (expr)*)
(***************************************************************************)
EFail == [ok |-> FALSE, e |-> <<>>, pos |-> 0]
EAt(e, pos) == [ok |-> TRUE, e |-> e, pos |-> pos]

\* the operator a symbol stands for
OpOfText(text) ==
    CASE text = <<"+">> -> "Add"
      [] text = <<"-">> -> "Subtract"
      [] text = <<"*">> -> "Multiply"
      [] text = <<"/">> -> "Divide"
      [] text = <<"^">> -> "Power"

NextIs(toks, pos, rules) == pos <= Len(toks) /\ toks[pos].rule \in rules

RECURSIVE EbnfExpr(_, _), EbnfTerm(_, _), EbnfPower(_, _), EbnfAtom(_, _)
RECURSIVE EbnfExprTail(_, _), EbnfTermTail(_, _)

EbnfClose(toks, r) ==
    IF r.ok /\ NextIs(toks, r.pos, {"rparen"}) THEN EAt(r.e, r.pos + 1) ELSE EFail

EbnfAtom(toks, i) ==
    IF i > Len(toks) THEN EFail
    ELSE IF toks[i].rule = "num" THEN EAt(ENum(ParseF64(toks[i].text)), i + 1)
    ELSE IF toks[i].rule = "var" THEN EAt(EVariable(AsString(toks[i].text)), i + 1)
    ELSE IF toks[i].rule = "lparen" THEN EbnfClose(toks, EbnfExpr(toks, i + 1))
    ELSE EFail

EbnfPowerJoin(a, p) == IF p.ok THEN EAt(EBinOp("Power", a.e, p.e), p.pos) ELSE a

EbnfPowerTail(toks, a) ==
    IF a.ok /\ NextIs(toks, a.pos, {"power"})
    THEN EbnfPowerJoin(a, EbnfPower(toks, a.pos + 1))
    ELSE a

EbnfPower(toks, i) == EbnfPowerTail(toks, EbnfAtom(toks, i))

EbnfTermJoin(toks, l, r) ==
    IF r.ok
    THEN EbnfTermTail(toks, EAt(EBinOp(OpOfText(toks[l.pos].text), l.e, r.e), r.pos))
    ELSE l

EbnfTermTail(toks, l) ==
    IF l.ok /\ NextIs(toks, l.pos, {"multiply", "divide"})
    THEN EbnfTermJoin(toks, l, EbnfPower(toks, l.pos + 1))
    ELSE l

EbnfTerm(toks, i) == EbnfTermTail(toks, EbnfPower(toks, i))

EbnfExprJoin(toks, l, r) ==
    IF r.ok
    THEN EbnfExprTail(toks, EAt(EBinOp(OpOfText(toks[l.pos].text), l.e, r.e), r.pos))
    ELSE l

EbnfExprTail(toks, l) ==
    IF l.ok /\ NextIs(toks, l.pos, {"add", "subtract"})
    THEN EbnfExprJoin(toks, l, EbnfTerm(toks, l.pos + 1))
    ELSE l

EbnfExpr(toks, i) == EbnfExprTail(toks, EbnfTerm(toks, i))

EbnfEnd(toks, variable, r) ==
    IF r.ok /\ r.pos = Len(toks) + 1 THEN Ok(Command(variable, r.e)) ELSE Err("syntax error")

\* command := (identifier "=")? expr
EbnfCommand(toks) ==
    IF HasTarget(toks)
    THEN EbnfEnd(toks, Some(AsString(toks[1].text)), EbnfExpr(toks, 3))
    ELSE EbnfEnd(toks, None, EbnfExpr(toks, 1))

(***************************************************************************)
(* The reference evaluator of section 8: a variable-free infix expression  *)
(* evaluated on the tokens, one level per precedence tier, without a tree. *)
(***************************************************************************)
RFail == [ok |-> FALSE, v |-> Unmodelled, pos |-> 0]
RAt(v, pos) == [ok |-> TRUE, v |-> v, pos |-> pos]

RefArith(sym, l, r) ==
    CASE sym = <<"+">> -> FAdd(l, r)
      [] sym = <<"-">> -> FSub(l, r)
      [] sym = <<"*">> -> FMul(l, r)
      [] sym = <<"/">> -> IF r = Zero THEN Err("division by zero") ELSE FDiv(l, r)
      [] sym = <<"^">> -> FPow(l, r)

RefApply(sym, l, r) ==
    IF l.tag # "Ok" THEN l ELSE IF r.tag # "Ok" THEN r ELSE RefArith(sym, l.val, r.val)

RECURSIVE RefSum(_, _), RefProduct(_, _), RefPower(_, _), RefAtom(_, _)
RECURSIVE RefSumTail(_, _), RefProductTail(_, _)

RefClose(toks, r) ==
    IF r.ok /\ NextIs(toks, r.pos, {"rparen"}) THEN RAt(r.v, r.pos + 1) ELSE RFail

RefAtom(toks, i) ==
    IF i > Len(toks) THEN RFail
    ELSE IF toks[i].rule = "num" THEN RAt(Ok(ParseF64(toks[i].text)), i + 1)
    ELSE IF toks[i].rule = "lparen" THEN RefClose(toks, RefSum(toks, i + 1))
    ELSE RFail

RefPowerJoin(toks, a, p) ==
    IF p.ok THEN RAt(RefApply(toks[a.pos].text, a.v, p.v), p.pos) ELSE a

RefPowerTail(toks, a) ==
    IF a.ok /\ NextIs(toks, a.pos, {"power"})
    THEN RefPowerJoin(toks, a, RefPower(toks, a.pos + 1))
    ELSE a

\* a ^ b ^ c is a ^ (b ^ c)
RefPower(toks, i) == RefPowerTail(toks, RefAtom(toks, i))

RefProductJoin(toks, l, r) ==
    IF r.ok THEN RefProductTail(toks, RAt(RefApply(toks[l.pos].text, l.v, r.v), r.pos)) ELSE l

RefProductTail(toks, l) ==
    IF l.ok /\ NextIs(toks, l.pos, {"multiply", "divide"})
    THEN RefProductJoin(toks, l, RefPower(toks, l.pos + 1))
    ELSE l

\* a / b * c is (a / b) * c
RefProduct(toks, i) == RefProductTail(toks, RefPower(toks, i))

RefSumJoin(toks, l, r) ==
    IF r.ok THEN RefSumTail(toks, RAt(RefApply(toks[l.pos].text, l.v, r.v), r.pos)) ELSE l

RefSumTail(toks, l) ==
    IF l.ok /\ NextIs(toks, l.pos, {"add", "subtract"})
    THEN RefSumJoin(toks, l, RefProduct(toks, l.pos + 1))
    ELSE l

\* a - b + c is (a - b) + c
RefSum(toks, i) == RefSumTail(toks, RefProduct(toks, i))

RefEnd(toks, r) == IF r.ok /\ r.pos = Len(toks) + 1 THEN r.v ELSE Err("syntax error")

RefEval(toks) == RefEnd(toks, RefSum(toks, 1))

(***************************************************************************)
(* What the claims speak of.                                               *)
(***************************************************************************)
\* the precedence tiers {Add,Subtract} < {Multiply,Divide} < {Power}
Tier(op) ==
    CASE op \in {"Add", "Subtract"} -> 1
      [] op \in {"Multiply", "Divide"} -> 2
      [] op = "Power" -> 3

NoParens(toks) == \A i \in 1..Len(toks) : toks[i].rule \notin {"lparen", "rparen"}
VariableFree(toks) == \A i \in 1..Len(toks) : toks[i].rule # "var"

\* the tokens of the expression: the line without its `identifier =`
ExprToks(toks) == IF HasTarget(toks) THEN SubSeq(toks, 3, Len(toks)) ELSE toks

\* the operand or operator a token of a flat expression stands for
Item(tok) ==
    CASE tok.rule = "num" -> ENum(ParseF64(tok.text))
      [] tok.rule = "var" -> EVariable(AsString(tok.text))
      [] OTHER -> OpOfText(tok.text)

Items(toks) == [i \in 1..Len(toks) |-> Item(toks[i])]

\* the leaves and operators of a tree, left to right
RECURSIVE Yield(_)
Yield(e) ==
    IF e.tag = "BinOp" THEN Yield(e.lhs) \o <<e.op>> \o Yield(e.rhs) ELSE <<e>>

IsOp(e) == e.tag = "BinOp"

\* no operator has an operator of a lower tier among its operands
RECURSIVE TierOrdered(_)
TierOrdered(e) ==
    IsOp(e) =>
        /\ \A c \in {e.lhs, e.rhs} : IsOp(c) => Tier(c.op) >= Tier(e.op)
        /\ TierOrdered(e.lhs)
        /\ TierOrdered(e.rhs)

\* an operand of the same tier as its operator is the left one, and under Power
\* the right one
RECURSIVE SameTierGrouping(_)
SameTierGrouping(e) ==
    IsOp(e) =>
        /\ IsOp(e.rhs) /\ Tier(e.rhs.op) = Tier(e.op) => e.op = "Power"
        /\ IsOp(e.lhs) /\ Tier(e.lhs.op) = Tier(e.op) => e.op # "Power"
        /\ SameTierGrouping(e.lhs)
        /\ SameTierGrouping(e.rhs)

Lit(n) == ENum(<<n, 1>>)
Evaluated == result.tag \in {"Ok", "Err"}
Anonymous(n, d) == Ok(<<"$0", <<n, d>>>>)

\* C1: in the tree of a parenthesis-free expression the operands and operators
\* stand in the order of the line and no operator of a lower tier is an operand
\* of an operator of a higher tier; `1 + 2 * 3` is Add(1, Multiply(2, 3)) and
\* evaluates to 7, `2 * 3 + 1` is Add(Multiply(2, 3), 1)
C1_PrecedenceTiers ==
    /\ command.tag = "Ok" /\ NoParens(line) =>
          /\ Yield(command.val.expression) = Items(ExprToks(line))
          /\ TierOrdered(command.val.expression)
    /\ line = N("1") \o <<ADD>> \o N("2") \o <<MUL>> \o N("3") =>
          /\ command.val.expression = EBinOp("Add", Lit(1), EBinOp("Multiply", Lit(2), Lit(3)))
          /\ Evaluated => result = Anonymous(7, 1)
    /\ line = N("2") \o <<MUL>> \o N("3") \o <<ADD>> \o N("1") =>
          command.val.expression = EBinOp("Add", EBinOp("Multiply", Lit(2), Lit(3)), Lit(1))

\* a lower tier on the left and on the right of a higher one, in one line: 2 + 3 * 2 - 3
C1_Witness ==
    /\ line = N("2") \o <<ADD>> \o N("3") \o <<MUL>> \o N("2") \o <<SUB>> \o N("3")
    /\ command.tag = "Ok"
    /\ command.val.expression.op = "Subtract"
    /\ command.val.expression.lhs.rhs.op = "Multiply"
    /\ result = Anonymous(5, 1)

\* C2: in the tree of a parenthesis-free expression a chain of operators of one
\* tier groups to the left for Add, Subtract, Multiply and Divide and to the
\* right for Power; `1 - 2 - 3` evaluates to -4 and `2 ^ 3 ^ 2` to 512
C2_Associativity ==
    /\ command.tag = "Ok" /\ NoParens(line) => SameTierGrouping(command.val.expression)
    /\ line = N("1") \o <<SUB>> \o N("2") \o <<SUB>> \o N("3") =>
          /\ command.val.expression = EBinOp("Subtract", EBinOp("Subtract", Lit(1), Lit(2)), Lit(3))
          /\ Evaluated => result = Anonymous(-4, 1)
    /\ line = N("2") \o <<POW>> \o N("3") \o <<POW>> \o N("2") =>
          /\ command.val.expression = EBinOp("Power", Lit(2), EBinOp("Power", Lit(3), Lit(2)))
          /\ Evaluated => result = Anonymous(512, 1)

\* a mixed chain of one tier and a chain of powers: 3 / 2 * 2 and 2 ^ 3 ^ 2
C2_Witness ==
    \/ /\ line = N("3") \o <<DIV>> \o N("2") \o <<MUL>> \o N("2")
       /\ command.val.expression.lhs.op = "Divide"
       /\ result = Anonymous(3, 1)
    \/ /\ line = N("2") \o <<POW>> \o N("3") \o <<POW>> \o N("2")
       /\ command.val.expression.rhs.op = "Power"
       /\ result = Anonymous(512, 1)

\* C3: the grammar of section 4.1 and parse_command accept the same lines and
\* build the same Command for each, nested parentheses included
C3_GrammarEquivalence == nlines > 0 => EbnfCommand(line) = command

\* ((2 ^ 3) - 2) ^ 3
C3_Witness ==
    /\ line = <<LP, LP>> \o N("2") \o <<POW>> \o N("3") \o <<RP, SUB>> \o N("2")
                \o <<RP, POW>> \o N("3")
    /\ command.tag = "Ok"
    /\ command.val.expression.lhs.lhs = EBinOp("Power", Lit(2), Lit(3))

\* C4: a variable-free line that parse_command accepts and calc_command
\* evaluates without error has the value the reference evaluator gives it
C4_MatchesReference ==
    result.tag = "Ok" /\ VariableFree(line) => RefEval(line) = Ok(result.val[2])

\* 3 / (2 + 2) = 0.75
C4_Witness ==
    /\ line = N("3") \o <<DIV, LP>> \o N("2") \o <<ADD>> \o N("2") \o <<RP>>
    /\ result = Anonymous(3, 4)

DollarName(k) == "$" \o ToString(k)
Bound(name, v) == name \in DOMAIN variables /\ variables[name] = v
Targeted == command.val.variable # None

\* C5: while every line of the session has succeeded, the k-th command without
\* a target is returned and bound under "$" followed by k - 1, however many
\* commands with a target came in between
C5_AutoNaming ==
    nlines > 0 /\ all_ok /\ ~Targeted =>
        /\ result.tag = "Ok"
        /\ result.val[1] = DollarName(anon_seen - 1)
        /\ Bound(DollarName(anon_seen - 1), result.val[2])

\* `3 + 5`, `v = 3 - 2`, `3 ^ 2` have given $0 = 8, v = 1, $1 = 9
C5_Witness ==
    /\ nlines = 3 /\ all_ok
    /\ line = N("3") \o <<POW>> \o N("2")
    /\ result = Ok(<<"$1", <<9, 1>>>>)
    /\ variables = ("$0" :> <<8, 1>> @@ "v" :> <<1, 1>> @@ "$1" :> <<9, 1>>)

\* C6: a command with a target leaves anonymous_counter as it was, whether it
\* succeeds or fails, and a step that changes the counter is a command without
\* a target and adds exactly one
C6_CounterOnlyOnAutoNaming ==
    [][ /\ command'.tag = "Ok" /\ command'.val.variable # None =>
              anonymous_counter' = anonymous_counter
        /\ anonymous_counter' # anonymous_counter =>
              /\ command'.tag = "Ok"
              /\ command'.val.variable = None
              /\ anonymous_counter' = anonymous_counter + 1 ]_vars

\* a command with a target has failed after an anonymous one: the counter is still 1
C6_Witness ==
    /\ nlines = 2 /\ command.tag = "Ok" /\ Targeted
    /\ result.tag = "Err"
    /\ anonymous_counter = 1

\* C7: every name a successful command returned is bound to the value the
\* latest such command returned for it, and Variable(name) evaluates to it
C7_LastWriteWins ==
    /\ DOMAIN last_write = DOMAIN variables
    /\ \A name \in DOMAIN last_write :
          calc_expression(Context(anonymous_counter, variables), EVariable(name))
              = Ok(last_write[name])
    /\ result.tag = "Ok" => Bound(result.val[1], result.val[2])

\* `v = v - 3` has succeeded: v was bound and is bound to another value now
C7_Witness ==
    /\ line = V("v") \o <<ASSIGN>> \o V("v") \o <<SUB>> \o N("3")
    /\ result.tag = "Ok"
    /\ nlines = 3

FirstLine == V("v") \o <<ASSIGN>> \o N("3") \o <<SUB>> \o N("2")
SecondLine == V("v") \o <<ADD>> \o TEN

\* C8 as stated: `v = 3 - 2` as the first line of a session and `v + 10` as the
\* second: the second command returns 12
C8_Original ==
    [][ nlines = 1 /\ line = FirstLine /\ line' = SecondLine =>
            result'.tag = "Ok" /\ result'.val[2] = <<12, 1>> ]_vars

\* C8 amended: `v = 3 - 2` as the first line of a session and `v + 10` as the
\* second: the second command returns 11, the sum of v = 1 and 10
C8_BindingVisibleLater ==
    [][ nlines = 1 /\ line = FirstLine /\ line' = SecondLine =>
            result'.tag = "Ok" /\ result'.val[2] = <<11, 1>> ]_vars

C8_Witness ==
    /\ nlines = 2 /\ line = SecondLine
    /\ result = Anonymous(11, 1)
    /\ variables = ("v" :> <<1, 1>> @@ "$0" :> <<11, 1>>)

\* C9: a command that fails leaves the bindings exactly as they were
C9_FailureKeepsBindings ==
    [][ result'.tag = "Err" => variables' = variables ]_vars

\* `v = v / 0` has failed with v bound, after an anonymous command
C9_Witness ==
    /\ line = V("v") \o <<ASSIGN>> \o V("v") \o <<DIV>> \o N("0")
    /\ result.tag = "Err"
    /\ DOMAIN variables = {"v", "$0"}

\* C10 as stated: a command that fails leaves the bindings and the counter as
\* they were, with or without a target
C10_Original ==
    [][ result'.tag = "Err" =>
            variables' = variables /\ anonymous_counter' = anonymous_counter ]_vars

\* C10 amended: a command that fails leaves the bindings as they were; the
\* counter is as it was when the command has a target and one more when it has none
C10_Amended ==
    [][ result'.tag = "Err" =>
            /\ variables' = variables
            /\ anonymous_counter' = anonymous_counter
                                    + (IF command'.val.variable = None THEN 1 ELSE 0) ]_vars

\* an anonymous command has failed after $0 was bound: the counter is 2, $1 is unbound
C10_Witness ==
    /\ result.tag = "Err" /\ ~Targeted
    /\ anonymous_counter = 2
    /\ DOMAIN variables = {"$0"}

\* C11: every command without a target adds one to the counter, whether it
\* succeeds or fails; one that succeeds is named by the counter it found, one
\* that fails leaves that name unbound, and an anonymous name that was passed
\* over unbound is never bound afterwards, so the bound names keep the gap
C11_FailedAnonymousLeavesGap ==
    [][ /\ command'.tag = "Ok" /\ command'.val.variable = None =>
              /\ anonymous_counter' = anonymous_counter + 1
              /\ result'.tag = "Ok" => result'.val[1] = DollarName(anonymous_counter)
              /\ result'.tag = "Err" => DollarName(anonymous_counter) \notin DOMAIN variables'
        /\ \A k \in 0..MaxCmds :
              k < anonymous_counter /\ DollarName(k) \notin DOMAIN variables =>
                  DollarName(k) \notin DOMAIN variables' ]_vars

\* the first anonymous command failed and the second succeeded: $1 is bound, $0 is not
C11_Witness ==
    /\ nlines = 2 /\ anonymous_counter = 2
    /\ result.tag = "Ok" /\ result.val[1] = "$1"
    /\ DOMAIN variables = {"$1"}

\* bail!("Error"), the failure of a division by zero
DivisionByZero == Err("Error")

\* the Divide nodes of an expression
RECURSIVE DivideNodes(_)
DivideNodes(e) ==
    IF e.tag # "BinOp" THEN {}
    ELSE (IF e.op = "Divide" THEN {e} ELSE {}) \cup DivideNodes(e.lhs) \cup DivideNodes(e.rhs)

\* a Divide node whose operands have the values left and right evaluates to whole
DivideChecked(left, right, whole) ==
    left.tag = "Ok" /\ right.tag = "Ok" /\ whole.tag # "Unmodelled" =>
        IF right.val = Zero THEN whole = DivisionByZero ELSE whole.tag = "Ok"

DivideRule(self, e) ==
    DivideChecked(calc_expression(self, e.lhs), calc_expression(self, e.rhs),
                  calc_expression(self, e))

\* C12: in the context a command is evaluated in, each Divide node of its
\* expression whose operands both have a value fails with the division error
\* when the right value is zero, whatever the left value is, and has a value
\* when the right value is not zero
C12_DivisionByZero ==
    [][ command'.tag = "Ok" =>
            \A e \in DivideNodes(command'.val.expression) :
                DivideRule(Context(anonymous_counter, variables), e) ]_vars

\* 3 / (3 - 3) has failed: the zero comes from a sub-expression
C12_Witness ==
    /\ line = N("3") \o <<DIV, LP>> \o N("3") \o <<SUB>> \o N("3") \o <<RP>>
    /\ result = DivisionByZero

\* anyhow!("undefined variable: {}", name)
UndefinedVariable(name) == Err("undefined variable: " \o name)

\* the names of the Variable nodes of an expression
RECURSIVE VariablesOf(_)
VariablesOf(e) ==
    CASE e.tag = "Num" -> {}
      [] e.tag = "Variable" -> {e.name}
      [] e.tag = "BinOp" -> VariablesOf(e.lhs) \cup VariablesOf(e.rhs)

ZeroDivisor(self, d) == calc_expression(self, d.rhs) = Ok(Zero)

\* every variable of e is bound and no Divide node of e has a right operand
\* that evaluates to zero
Evaluable(self, e) ==
    /\ VariablesOf(e) \subseteq DOMAIN self.variables
    /\ \A d \in DivideNodes(e) : ~ZeroDivisor(self, d)

LookupRule(self, name, value) ==
    value = IF name \in DOMAIN self.variables
            THEN Ok(self.variables[name]) ELSE UndefinedVariable(name)

Failures(unbound) == {DivisionByZero} \cup {UndefinedVariable(name) : name \in unbound}

EvaluationRule(self, e, names, res) ==
    /\ res.tag = "Ok" <=> Evaluable(self, e)
    /\ res.tag = "Err" => res \in Failures(names \ DOMAIN self.variables)
    /\ \A name \in names : LookupRule(self, name, calc_expression(self, EVariable(name)))

\* C13: in the context a command is evaluated in, Variable(name) has the value
\* name is bound to and fails with "undefined variable" and that name when it
\* is not bound; the command's expression has a value exactly when all its
\* variables are bound and no Divide node of it has a right operand that
\* evaluates to zero, and fails otherwise with the division error or with an
\* unbound variable of the expression
C13_UndefinedVariable ==
    [][ command'.tag = "Ok" =>
            EvaluationRule(Context(anonymous_counter, variables), command'.val.expression,
                           VariablesOf(command'.val.expression), result') ]_vars

\* v - 3 has failed on an unbound v after a command bound $0
C13_Witness ==
    /\ line = V("v") \o <<SUB>> \o N("3")
    /\ result = UndefinedVariable("v")
    /\ DOMAIN variables = {"$0"}

\* the parentheses of a line match: none closes before it opens, none is left open
RECURSIVE Balanced(_, _)
Balanced(ln, depth) ==
    IF ln = <<>> THEN depth = 0
    ELSE IF Head(ln) = LP THEN Balanced(Tail(ln), depth + 1)
    ELSE IF Head(ln) = RP THEN depth > 0 /\ Balanced(Tail(ln), depth - 1)
    ELSE Balanced(Tail(ln), depth)

\* a token that cannot follow a complete command: an operand, an opening
\* parenthesis, or `=` after anything but a lone identifier
Garbage(cmdline, t) ==
    \/ t.rule \in {"num", "var"}
    \/ t = LP
    \/ t = ASSIGN /\ ~(Len(cmdline) = 1 /\ cmdline[1].rule = "var")

\* a valid command followed by trailing tokens
Trailing(ln) ==
    \E k \in 1..(Len(ln) - 1) :
        /\ Garbage(SubSeq(ln, 1, k), ln[k + 1])
        /\ parse_command(SubSeq(ln, 1, k)).tag = "Ok"

Rejectable(ln) == ln = <<>> \/ ~Balanced(ln, 0) \/ Trailing(ln)

\* C14: a line that is empty, or is a valid command followed by trailing
\* tokens, or has unbalanced parentheses, is rejected: parse_command returns
\* an error and no Command, nothing is evaluated, and the bindings and the
\* counter stay as they were
C14_SyntaxErrors ==
    [][ Rejectable(line') =>
            /\ command'.tag = "Err"
            /\ result' = Nothing
            /\ variables' = variables
            /\ anonymous_counter' = anonymous_counter ]_vars

\* x = 2 followed by a second operand, rejected
C14_Witness ==
    /\ line = <<Var(<<"x">>), ASSIGN, Num(<<"2">>), Num(<<"2">>)>>
    /\ command.tag = "Err"
    /\ result = Nothing

\* the lines that follow a failed line: with and without a target, succeeding
\* and failing, reading v, and one that is rejected
FollowLines ==
    { N("3"), V("v"), N("3") \o <<DIV>> \o N("0"),
      V("v") \o <<ASSIGN>> \o V("v") \o <<SUB>> \o N("3"),
      <<LP>> \o N("2") }

\* what a line gives in a context: the value or error returned and the context left
Outcome(self, parsed) ==
    IF parsed.tag = "Ok" THEN calc_command(self, parsed.val) ELSE [self |-> self, ret |-> parsed]

LineOutcome(self, ln) == Outcome(self, parse_command(ln))

\* the step processes a line that fails: it is rejected, or its command returns an error
FailingStep == nlines' = nlines + 1 /\ (command'.tag = "Err" \/ result'.tag = "Err")

\* C15 as stated: after a line that fails, every following line gives the
\* result and the context it gives without the failed line
C15_Original ==
    [][ FailingStep =>
            \A c \in FollowLines :
                LineOutcome(Context(anonymous_counter', variables'), c)
                    = LineOutcome(Context(anonymous_counter, variables), c) ]_vars

\* the outcome `after` of a line differs from its outcome `without` by the
\* counter being one more and by the name an anonymous command goes under
ShiftedByOne(bindings, without, after) ==
    /\ after.self.anonymous_counter = without.self.anonymous_counter + 1
    /\ after.ret.tag = without.ret.tag
    /\ after.ret.tag # "Ok" =>
          /\ after.ret = without.ret
          /\ after.self.variables = bindings /\ without.self.variables = bindings
    /\ after.ret.tag = "Ok" =>
          /\ after.ret.val[2] = without.ret.val[2]
          /\ after.self.variables = Insert(bindings, after.ret.val[1], after.ret.val[2])
          /\ without.self.variables = Insert(bindings, without.ret.val[1], after.ret.val[2])
          /\ \/ after.ret.val[1] = without.ret.val[1]
             \/ /\ without.ret.val[1] = DollarName(without.self.anonymous_counter - 1)
                /\ after.ret.val[1] = DollarName(without.self.anonymous_counter)

PerLine(anonymous, bindings, without, after) ==
    IF anonymous THEN ShiftedByOne(bindings, without, after) ELSE after = without

\* C15 amended: after a line that is rejected or that fails with a target,
\* every following line gives the result and the context it gives without
\* the failed line; after a line that fails without a target it gives the
\* same value or error and the same bindings, except that the counter is one
\* more and an anonymous command is named by the next number
C15_ErrorsPerLine ==
    [][ FailingStep =>
            \A c \in FollowLines :
                PerLine(command'.tag = "Ok" /\ command'.val.variable = None, variables,
                        LineOutcome(Context(anonymous_counter, variables), c),
                        LineOutcome(Context(anonymous_counter', variables'), c)) ]_vars

\* `3 / 0`, then `3`: the value 3 is returned and bound as $1, $0 stays unbound
C15_Witness ==
    /\ nlines = 2 /\ line = N("3")
    /\ result = Ok(<<"$1", <<3, 1>>>>)
    /\ variables = ("$1" :> <<3, 1>>)

\* C16: the counter of a new context is 0 and no step decreases it; the
\* command without a target that comes after k others is handed the name "$"
\* followed by k, whether it succeeds or fails, and that name differs from
\* the names handed to the k commands before it
C16_NamesNeverReused ==
    [][ /\ nlines = 0 => anonymous_counter = 0
        /\ anonymous_counter' >= anonymous_counter
        /\ command'.tag = "Ok" /\ command'.val.variable = None =>
              /\ NameResult(Context(anonymous_counter, variables), command'.val).name
                     = DollarName(anon_seen)
              /\ \A k \in 0..(anon_seen - 1) : DollarName(k) # DollarName(anon_seen) ]_vars

\* three anonymous commands, the second one failed: $0 and $2 are bound
C16_Witness ==
    /\ anon_seen = 3 /\ anonymous_counter = 3
    /\ DOMAIN variables = {"$0", "$2"}

(***************************************************************************)
(* mock_storage.rs. A usize has UsizeBits bits; a sum or difference that   *)
(* leaves its range panics in a build with overflow checks and wraps in a  *)
(* build without them.                                                     *)
(***************************************************************************)
UsizeMod == 2 ^ UsizeBits
UsizeMax == UsizeMod - 1

\* the usize that an operation with the exact result n gives
Usize(n) ==
    IF n \in 0..UsizeMax THEN Ok(n)
    ELSE IF overflow_checks THEN Panic
    ELSE Ok(n % UsizeMod)

MockStorage(stored, cap) == [files |-> stored, capacity |-> cap]

\* MockStorage::new(capacity)
MockStorage_new(cap) == MockStorage(<<>>, cap)

\* the exact sum of the sizes stored under `names`
RECURSIVE Total(_, _)
TotalWith(stored, names, name) == stored[name] + Total(stored, names \ {name})
Total(stored, names) ==
    IF names = {} THEN 0 ELSE TotalWith(stored, names, CHOOSE name \in names : TRUE)

\* files.values().sum()
SumValues(stored) == Usize(Total(stored, DOMAIN stored))

\* files.get(name).copied().unwrap_or(0)
OldSize(stored, name) == IF name \in DOMAIN stored THEN stored[name] ELSE 0

\* a panic unwinds out of upload: the borrow ends and the files are as they were
Unwound(self) == [self |-> self, ret |-> Panic]

\* the capacity check and the insert
WithTotal(self, name, size, new_total) ==
    IF new_total.tag # "Ok" THEN Unwound(self)
    ELSE IF new_total.val > self.capacity
    THEN [self |-> self, ret |-> Err(new_total.val - self.capacity)]
    ELSE [self |-> MockStorage(Insert(self.files, name, size), self.capacity),
          ret |-> Ok(<<>>)]

\* (current_used - old_size) + size
WithReclaimed(self, name, size, reclaimed) ==
    IF reclaimed.tag # "Ok" THEN Unwound(self)
    ELSE WithTotal(self, name, size, Usize(reclaimed.val + size))

WithUsed(self, name, size, current_used) ==
    IF current_used.tag # "Ok" THEN Unwound(self)
    ELSE WithReclaimed(self, name, size,
                       Usize(current_used.val - OldSize(self.files, name)))

\* MockStorage::upload: the storage it leaves and what it returns
upload(self, name, size) == WithUsed(self, name, size, SumValues(self.files))

\* MockStorage::used
used(self) == SumValues(self.files)

\* a storage of some capacity, in a build of either kind
InitStorage ==
    /\ CalcInit /\ GraphInit /\ AssignmentsInit
    /\ capacity \in 0..UsizeMax
    /\ files = MockStorage_new(capacity).files
    /\ overflow_checks \in BOOLEAN
    /\ upload_args = Nothing
    /\ upload_ret = Nothing

Uploaded(name, size, out) ==
    /\ files' = out.self.files
    /\ upload_ret' = out.ret
    /\ upload_args' = [name |-> name, size |-> size]
    /\ UNCHANGED <<capacity, overflow_checks, calc_vars, graph_vars, assignment_vars>>

\* storage.upload(name, size); a panic ends the run
Upload ==
    /\ upload_ret # Panic
    /\ \E name \in FileNames, size \in 0..UsizeMax :
          Uploaded(name, size, upload(MockStorage(files, capacity), name, size))

NextStorage == Upload

\* any sequence of uploads to one storage
SpecStorage == InitStorage /\ [][NextStorage]_vars

\* C17: after any sequence of uploads the sum of the sizes of the stored
\* files is at most the capacity
C17_CapacityInvariant == Total(files, DOMAIN files) <= capacity

\* without overflow checks, `a` of size 1 and then `b` of the largest size were
\* both accepted by a storage of capacity 1
C17_Witness ==
    /\ ~overflow_checks /\ capacity = 1
    /\ upload_ret = Ok(<<>>)
    /\ files = ("a" :> 1 @@ "b" :> UsizeMax)

Within(reported, cap) == reported.tag = "Ok" /\ reported.val <= cap

\* what does hold: used() returns a value, and it is at most the capacity; and
\* in a build with overflow checks the exact sum is at most the capacity
UsedWithinCapacity ==
    /\ Within(used(MockStorage(files, capacity)), capacity)
    /\ overflow_checks => Total(files, DOMAIN files) <= capacity

\* upload(name, size) found `stored`, returned ret and left stored_after, where
\* used() minus the old size of name plus size is `excess` more than the capacity
UploadRule(stored, name, size, ret, stored_after, excess) ==
    IF excess > 0
    THEN ret = Err(excess) /\ stored_after = stored
    ELSE ret = Ok(<<>>) /\ stored_after = Insert(stored, name, size)

UploadRuleFor(stored, cap, args, ret, stored_after, reported) ==
    /\ reported.tag = "Ok"
    /\ UploadRule(stored, args.name, args.size, ret, stored_after,
                  reported.val - OldSize(stored, args.name) + args.size - cap)

\* C18: upload(name, size) returns Err with the excess and leaves the files as
\* they were when used() minus the size of an existing file called name plus
\* size exceeds the capacity, and otherwise returns Ok and leaves name stored
\* with the new size
C18_UploadRule ==
    [][ UploadRuleFor(files, capacity, upload_args', upload_ret', files',
                      used(MockStorage(files, capacity))) ]_vars

\* an upload whose total leaves the range of usize has panicked
C18_Witness ==
    /\ overflow_checks /\ upload_ret = Panic
    /\ upload_args = [name |-> "b", size |-> UsizeMax]
    /\ files = ("a" :> 1)

InRange(stored, cap, args, ret, stored_after, reported) ==
    /\ Total(stored, DOMAIN stored) <= cap
    /\ reported.val - OldSize(stored, args.name) + args.size <= UsizeMax
    => UploadRuleFor(stored, cap, args, ret, stored_after, reported)

\* what does hold: the rule of C18 for every upload whose total is a usize, to
\* a storage whose files are within the capacity
UploadRuleWithoutOverflow ==
    [][ InRange(files, capacity, upload_args', upload_ret', files',
                used(MockStorage(files, capacity))) ]_vars

(***************************************************************************)
(* graph.rs. A node is named by its identity (the address Rc::ptr_eq and   *)
(* as_ptr compare); its value plays no part. No borrow is outstanding when *)
(* a method is called, so try_borrow_mut and try_borrow succeed.           *)
(***************************************************************************)
Range(seq) == {seq[i] : i \in 1..Len(seq)}

\* a plain return value
Ret(v) == [tag |-> "Ret", val |-> v]

\* iter().position(|e| Rc::ptr_eq(..)): the first index of node, 0 for None
Position(seq, node) ==
    IF node \in Range(seq) THEN CHOOSE i \in 1..Len(seq) : seq[i] = node /\ \A j \in 1..(i - 1) : seq[j] # node
    ELSE 0

\* Vec::remove(index)
RemoveAt(seq, index) == SubSeq(seq, 1, index - 1) \o SubSeq(seq, index + 1, Len(seq))

\* an add_edge that pushes without looking for the edge
add_edge_always(node_edges, to) == [edges |-> Append(node_edges, to), ret |-> Ok(TRUE)]

\* NodeHandle::add_edge on a node with the edges node_edges
add_edge(node_edges, to) ==
    IF \E i \in 1..Len(node_edges) : node_edges[i] = to
    THEN [edges |-> node_edges, ret |-> Ok(FALSE)]
    ELSE [edges |-> Append(node_edges, to), ret |-> Ok(TRUE)]

RemoveFound(node_edges, index) ==
    IF index # 0
    THEN [edges |-> RemoveAt(node_edges, index), ret |-> Ok(TRUE)]
    ELSE [edges |-> node_edges, ret |-> Ok(FALSE)]

\* NodeHandle::remove_edge
remove_edge(node_edges, to) == RemoveFound(node_edges, Position(node_edges, to))

\* NodeHandle::clear_edges
clear_edges(node_edges) == [edges |-> <<>>, ret |-> Ok(<<>>)]

\* SubGraph::add_node
add_node(self_nodes, node) ==
    IF \E i \in 1..Len(self_nodes) : self_nodes[i] = node
    THEN [nodes |-> self_nodes, ret |-> Ret(FALSE)]
    ELSE [nodes |-> Append(self_nodes, node), ret |-> Ret(TRUE)]

NodeFound(self_nodes, index) ==
    IF index # 0
    THEN [nodes |-> RemoveAt(self_nodes, index), ret |-> Ret(TRUE)]
    ELSE [nodes |-> self_nodes, ret |-> Ret(FALSE)]

\* SubGraph::remove_node
remove_node(self_nodes, node) == NodeFound(self_nodes, Position(self_nodes, node))

\* the sets `visiting` and `visited` of detect_cycle, and whether a dfs returned true
Marks(visiting, visited, found) == [visiting |-> visiting, visited |-> visited, found |-> found]

\* `return true`: the sets are not read again
ReturnTrue(st) == Marks(st.visiting, st.visited, TRUE)

RECURSIVE dfs(_, _, _, _)
RECURSIVE ForNeighbors(_, _, _, _, _)

\* the loop body with every neighbour followed, in the subgraph or not
Visit_unfiltered(all_edges, subgraph_nodes, neighbor, st) ==
    IF neighbor \in st.visiting THEN ReturnTrue(st)
    ELSE IF neighbor \in st.visited THEN st
    ELSE dfs(all_edges, subgraph_nodes, neighbor, st)

\* the body of `for neighbor in &node.edges`
Visit(all_edges, subgraph_nodes, neighbor, st) ==
    IF neighbor \notin subgraph_nodes THEN st
    ELSE IF neighbor \in st.visiting THEN ReturnTrue(st)
    ELSE IF neighbor \in st.visited THEN st
    ELSE dfs(all_edges, subgraph_nodes, neighbor, st)

\* `for neighbor in &node.edges`, from the i-th edge on; a `return true` ends it
ForNeighbors(all_edges, subgraph_nodes, node_edges, i, st) ==
    IF st.found \/ i > Len(node_edges) THEN st
    ELSE ForNeighbors(all_edges, subgraph_nodes, node_edges, i + 1,
                      Visit(all_edges, subgraph_nodes, node_edges[i], st))

\* step 5 of dfs: the node leaves `visiting` and enters `visited`
Done(current, st) ==
    IF st.found THEN st
    ELSE Marks(st.visiting \ {current}, st.visited \cup {current}, FALSE)

\* fn dfs(current, visiting, visited, subgraph_nodes) -> bool
dfs(all_edges, subgraph_nodes, current, st) ==
    IF current \in st.visiting THEN ReturnTrue(st)
    ELSE IF current \in st.visited THEN st
    ELSE Done(current,
              ForNeighbors(all_edges, subgraph_nodes, all_edges[current], 1,
                           Marks(st.visiting \cup {current}, st.visited, FALSE)))

\* `for node in &self.nodes`: a dfs from every node not visited yet
RECURSIVE ForNodes(_, _, _, _, _)
FromNode(all_edges, subgraph_nodes, node, st) ==
    IF node \in st.visited THEN st ELSE dfs(all_edges, subgraph_nodes, node, st)

ForNodes(all_edges, subgraph_nodes, self_nodes, i, st) ==
    IF st.found \/ i > Len(self_nodes) THEN st
    ELSE ForNodes(all_edges, subgraph_nodes, self_nodes, i + 1,
                  FromNode(all_edges, subgraph_nodes, self_nodes[i], st))

\* SubGraph::detect_cycle
detect_cycle(self_nodes, all_edges) ==
    ForNodes(all_edges, Range(self_nodes), self_nodes, 1, Marks({}, {}, FALSE)).found

Call(op, self, arg) == [op |-> op, self |-> self, arg |-> arg]

\* the edges of all nodes together
RECURSIVE CountEdges(_, _)
CountRest(all_edges, ids, n) == Len(all_edges[n]) + CountEdges(all_edges, ids \ {n})
CountEdges(all_edges, ids) ==
    IF ids = {} THEN 0 ELSE CountRest(all_edges, ids, CHOOSE n \in ids : TRUE)

EdgeCall(op, from, to, out) ==
    /\ edges' = [edges EXCEPT ![from] = out.edges]
    /\ graph_call' = Call(op, from, to)
    /\ graph_ret' = out.ret
    /\ UNCHANGED <<nodes, calc_vars, storage_vars, assignment_vars>>

NodeCall(op, node, out) ==
    /\ nodes' = out.nodes
    /\ graph_call' = Call(op, "subgraph", node)
    /\ graph_ret' = out.ret
    /\ UNCHANGED <<edges, calc_vars, storage_vars, assignment_vars>>

WithRoom(from, to, out) ==
    /\ CountEdges(edges, NodeIds \ {from}) + Len(out.edges) <= MaxEdges
    /\ EdgeCall("add_edge", from, to, out)

\* from.add_edge(to), while the graph has room for the edge
AddEdge == \E from \in NodeIds, to \in NodeIds : WithRoom(from, to, add_edge(edges[from], to))

\* from.remove_edge(&to)
RemoveEdge ==
    \E from \in NodeIds, to \in NodeIds :
        EdgeCall("remove_edge", from, to, remove_edge(edges[from], to))

\* from.clear_edges()
ClearEdges ==
    \E from \in NodeIds : EdgeCall("clear_edges", from, "none", clear_edges(edges[from]))

\* subgraph.add_node(node)
AddNode == \E node \in NodeIds : NodeCall("add_node", node, add_node(nodes, node))

\* subgraph.remove_node(&node)
RemoveNode == \E node \in NodeIds : NodeCall("remove_node", node, remove_node(nodes, node))

\* subgraph.detect_cycle()
DetectCycle ==
    /\ graph_call' = Call("detect_cycle", "subgraph", "none")
    /\ graph_ret' = Ret(detect_cycle(nodes, edges))
    /\ UNCHANGED <<edges, nodes, calc_vars, storage_vars, assignment_vars>>

NextGraph == AddEdge \/ RemoveEdge \/ ClearEdges \/ AddNode \/ RemoveNode \/ DetectCycle

\* any sequence of calls on the nodes and on one subgraph
SpecGraph == Init /\ [][NextGraph]_vars

\* there is an edge from n to m
HasEdge(all_edges, n, m) == m \in Range(all_edges[n])

\* path is a directed cycle: every node has an edge to the next, the last to the first
IsCycle(all_edges, path, k) ==
    /\ \A i \in 1..(k - 1) : HasEdge(all_edges, path[i], path[i + 1])
    /\ HasEdge(all_edges, path[k], path[1])

\* some directed cycle passes through nodes of S only
HasCycle(S, all_edges) ==
    \E k \in 1..Cardinality(S) : \E path \in [1..k -> S] : IsCycle(all_edges, path, k)

Agrees(expected) ==
    /\ detect_cycle(nodes, edges) = expected
    /\ graph_call.op = "detect_cycle" => graph_ret = Ret(expected)

\* C19: for every subgraph and every graph, built in any order, detect_cycle
\* is true exactly when a directed cycle, a self-loop included, passes through
\* nodes of the subgraph only; that depends on the sets of nodes and edges,
\* not on the order they were added in
C19_DetectCycle == Agrees(HasCycle(Range(nodes), edges))

\* n1 -> n2 -> n3 -> n1 with only n1 and n2 in the subgraph: detect_cycle returned false
C19_Witness ==
    /\ edges = [n \in NodeIds |-> IF n = "n1" THEN <<"n2">>
                                  ELSE IF n = "n2" THEN <<"n3">> ELSE <<"n1">>]
    /\ nodes = <<"n2", "n1">>
    /\ graph_call.op = "detect_cycle"
    /\ graph_ret = Ret(FALSE)

NoDuplicates(seq) == \A i, j \in 1..Len(seq) : seq[i] = seq[j] => i = j

AddEdgeRule(had, before, after, from, to, ret) ==
    IF had THEN ret = Ok(FALSE) /\ after = before
    ELSE /\ ret = Ok(TRUE)
         /\ HasEdge(after, from, to)
         /\ after = [before EXCEPT ![from] = Append(@, to)]

RemoveEdgeRule(had, before, after, from, to, ret) ==
    /\ ret = Ok(had)
    /\ ~HasEdge(after, from, to)
    /\ \A n \in NodeIds \ {from} : after[n] = before[n]
    /\ Range(after[from]) = Range(before[from]) \ {to}

\* C20: after every call no node holds two edges to one node; add_edge returns
\* Ok(true) and appends the edge when the node has none to `to`, and returns
\* Ok(false) and changes nothing when it has one; remove_edge returns Ok(true)
\* exactly when the node had an edge to `to`, and afterwards it has none
C20_NoParallelEdges ==
    [][ /\ \A n \in NodeIds : NoDuplicates(edges'[n])
        /\ graph_call'.op = "add_edge" =>
              AddEdgeRule(HasEdge(edges, graph_call'.self, graph_call'.arg), edges, edges',
                          graph_call'.self, graph_call'.arg, graph_ret')
        /\ graph_call'.op = "remove_edge" =>
              RemoveEdgeRule(HasEdge(edges, graph_call'.self, graph_call'.arg), edges, edges',
                             graph_call'.self, graph_call'.arg, graph_ret') ]_vars

\* n1 has edges to n3 and n2, and a second add_edge to n2 returned Ok(false)
C20_Witness ==
    /\ graph_call = Call("add_edge", "n1", "n2")
    /\ graph_ret = Ok(FALSE)
    /\ edges["n1"] = <<"n3", "n2">>

(***************************************************************************)
(* assignment10/small_exercises.rs: remove_duplicate, and                   *)
(* assignment02/small_exercises.rs: gcd. Both are functions of their        *)
(* arguments: the arguments are drawn at the start, each is called once.    *)
(***************************************************************************)
\* longest vector drawn for remove_duplicate, besides the documented example
MaxLen == 4
\* largest argument drawn for gcd
MaxArg == 6

\* the i64 values of a drawn vector
Ints == {1, 2, 3}

\* the example in remove_duplicate's documentation
DocExample == <<1, 2, 1, 1, 3, 7, 5, 7>>

Vecs == UNION {[1..n -> Ints] : n \in 0..MaxLen} \cup {DocExample}

\* Vec::dedup keeps an element unless it equals the element kept just before it
RECURSIVE dedup_from(_, _, _)
dedup_from(v, i, kept) ==
    IF i > Len(v) THEN kept
    ELSE dedup_from(v, i + 1,
                    IF kept # <<>> /\ v[i] = kept[Len(kept)] THEN kept ELSE Append(kept, v[i]))

dedup(v) == dedup_from(v, 1, <<>>)

\* remove_duplicate(&mut inner): the vector it leaves
remove_duplicate(v) == dedup(v)

\* lhs % rhs on u64: a zero divisor panics, in every build
Rem(lhs, rhs) == IF rhs = 0 THEN Panic ELSE Ret(lhs % rhs)

RECURSIVE gcd(_, _)
GcdOf(rhs, temp) ==
    IF temp = Panic THEN Panic
    ELSE IF temp.val = 0 THEN Ret(rhs)
    ELSE gcd(rhs, temp.val)

\* gcd(lhs, rhs)
gcd(lhs, rhs) == GcdOf(rhs, Rem(lhs, rhs))

InitExercises ==
    /\ CalcInit /\ StorageIdle /\ GraphInit /\ OrganizeInit /\ ListInit
    /\ inner_vec \in Vecs
    /\ inner_arg = None
    /\ gcd_args \in [lhs : 0..MaxArg, rhs : 0..MaxArg]
    /\ gcd_ret = Pending

\* remove_duplicate(&mut inner)
RemoveDuplicate ==
    /\ inner_arg = None
    /\ inner_arg' = Some(inner_vec)
    /\ inner_vec' = remove_duplicate(inner_vec)
    /\ UNCHANGED <<gcd_args, gcd_ret>>
    /\ UNCHANGED <<calc_vars, storage_vars, graph_vars, organize_vars, list_vars>>

\* gcd(lhs, rhs)
GcdCall ==
    /\ gcd_ret = Pending
    /\ gcd_ret' = gcd(gcd_args.lhs, gcd_args.rhs)
    /\ UNCHANGED <<inner_vec, inner_arg, gcd_args>>
    /\ UNCHANGED <<calc_vars, storage_vars, graph_vars, organize_vars, list_vars>>

NextExercises == RemoveDuplicate \/ GcdCall

\* one call of each function, on every drawn argument
SpecExercises == InitExercises /\ [][NextExercises]_vars

\* how often x occurs in v
Occurrences(v, x) == Cardinality({i \in 1..Len(v) : v[i] = x})

OnceEach(before, after) ==
    /\ \A x \in Range(before) : Occurrences(after, x) = 1
    /\ Range(after) \subseteq Range(before)

\* C21: after remove_duplicate(v), every integer that occurred in v occurs
\* exactly once in v and no other integer occurs, whether or not equal
\* elements were adjacent
C21_RemoveDuplicate == inner_arg # None => OnceEach(inner_arg[1], inner_vec)

\* the documented example keeps its second 1 and its second 7
C21_Witness ==
    /\ inner_arg = Some(DocExample)
    /\ inner_vec = <<1, 2, 1, 3, 7, 5, 7>>

NoEqualNeighbours(v) == \A i \in 1..(Len(v) - 1) : v[i] # v[i + 1]

\* what does hold: the same integers occur, no two equal ones next to each
\* other; and vectors whose equal elements are adjacent are left without
\* duplicates
RemoveAdjacentDuplicates ==
    inner_arg # None =>
        /\ Range(inner_vec) = Range(inner_arg[1])
        /\ NoEqualNeighbours(inner_vec)
        /\ (\A i, j \in 1..Len(inner_arg[1]) :
               i < j /\ inner_arg[1][i] = inner_arg[1][j] => inner_arg[1][i + 1] = inner_arg[1][i])
           => OnceEach(inner_arg[1], inner_vec)

Divides(d, n) == n % d = 0

\* the greatest d that divides both, for lhs and rhs not both zero
GreatestCommonDivisor(lhs, rhs) ==
    CHOOSE d \in 1..(lhs + rhs) :
        /\ Divides(d, lhs) /\ Divides(d, rhs)
        /\ \A e \in 1..(lhs + rhs) : Divides(e, lhs) /\ Divides(e, rhs) => e <= d

GcdRule(lhs, rhs, ret) == lhs + rhs > 0 => ret = Ret(GreatestCommonDivisor(lhs, rhs))

\* C22: for non-negative lhs and rhs that are not both zero, gcd(lhs, rhs)
\* returns their greatest common divisor without panicking, also when lhs = 0
\* or rhs = 0
C22_Gcd == gcd_ret # Pending => GcdRule(gcd_args.lhs, gcd_args.rhs, gcd_ret)

\* gcd(4, 0) panicked on 4 % 0
C22_Witness ==
    /\ gcd_args = [lhs |-> 4, rhs |-> 0]
    /\ gcd_ret = Panic

\* what does hold: with rhs > 0 the greatest common divisor is returned,
\* gcd(0, n) = n included, and with rhs = 0 the call panics
GcdWithPositiveRhs ==
    gcd_ret # Pending =>
        IF gcd_args.rhs = 0 THEN gcd_ret = Panic
        ELSE gcd_ret = Ret(GreatestCommonDivisor(gcd_args.lhs, gcd_args.rhs))

(***************************************************************************)
(* assignment03/small_exercises.rs: organize. One step is one iteration of  *)
(* the loop over the commands; org is the table the function returns when   *)
(* the commands end.                                                        *)
(***************************************************************************)
Persons == {"Amir", "Sally"}
Depts == {"Sales", "Engineering", "Library"}

\* cmd.split_whitespace() of the three commands
AddCmd(person, dept) == <<"Add", person, "to", dept>>
RemoveCmd(person, dept) == <<"Remove", person, "from", dept>>
MoveCmd(person, from_dept, to_dept) == <<"Move", person, "from", from_dept, "to", to_dept>>

\* lines that match none of the three patterns
Malformed ==
    {<<>>} \cup
    UNION {{<<"Add", p, "from", d>>, <<"Move", p, "from", d>>, <<"Remove", p, "from", d, "now">>,
            <<"Hire", p, "to", d>>} : p \in Persons, d \in Depts}

Commands ==
    {AddCmd(p, d) : p \in Persons, d \in Depts} \cup
    {RemoveCmd(p, d) : p \in Persons, d \in Depts} \cup
    {MoveCmd(p, a, b) : p \in Persons, a \in Depts, b \in Depts} \cup
    Malformed

\* the slice patterns of the match
IsAdd(parts) == Len(parts) = 4 /\ parts[1] = "Add" /\ parts[3] = "to"
IsRemove(parts) == Len(parts) = 4 /\ parts[1] = "Remove" /\ parts[3] = "from"
IsMove(parts) ==
    Len(parts) = 6 /\ parts[1] = "Move" /\ parts[3] = "from" /\ parts[5] = "to"

\* org.entry(dept).or_default()
OrDefault(o, dept) == IF dept \in DOMAIN o THEN o[dept] ELSE {}

\* org.entry(dept).or_default().insert(person)
EntryInsert(o, dept, person) == Insert(o, dept, OrDefault(o, dept) \cup {person})

\* org.remove(dept)
WithoutDept(o, dept) == [d \in DOMAIN o \ {dept} |-> o[d]]

\* the second lookup of from_dept kept an emptied department in the table
Cleanup_keep(o, from_dept) == o

\* if from_dept is in the table and its set is empty, it is removed
Cleanup(o, from_dept) ==
    IF from_dept \in DOMAIN o /\ o[from_dept] = {} THEN WithoutDept(o, from_dept) ELSE o

\* set.remove(person), then the department is removed if its set is empty
RemoveFrom(o, dept, person) == Cleanup(Insert(o, dept, o[dept] \ {person}), dept)

\* the Remove arm
RemoveArm(o, person, dept) == IF dept \in DOMAIN o THEN RemoveFrom(o, dept, person) ELSE o

\* the Move arm once from_set.remove(person) returned true
Moved(o, person, from_dept, to_dept) ==
    Cleanup(EntryInsert(Insert(o, from_dept, o[from_dept] \ {person}), to_dept, person),
            from_dept)

\* the Move arm
MoveArm(o, person, from_dept, to_dept) ==
    IF from_dept \in DOMAIN o /\ person \in o[from_dept]
    THEN Moved(o, person, from_dept, to_dept)
    ELSE o

\* one iteration of organize's loop: the table after the command `parts`
organize(o, parts) ==
    IF IsAdd(parts) THEN EntryInsert(o, parts[4], parts[2])
    ELSE IF IsRemove(parts) THEN RemoveArm(o, parts[2], parts[4])
    ELSE IF IsMove(parts) THEN MoveArm(o, parts[2], parts[4], parts[6])
    ELSE o

Organize(parts) ==
    /\ org' = organize(org, parts)
    /\ org_cmd' = parts
    /\ UNCHANGED <<calc_vars, storage_vars, graph_vars, exercise_vars, list_vars>>

\* the next command of the vector
OrganizeStep == \E parts \in Commands : Organize(parts)

NextOrganize == OrganizeStep

\* organize on any vector of commands
SpecOrganize == Init /\ [][NextOrganize]_vars

NoEmptyDepartment(o) == \A d \in DOMAIN o : o[d] # {}

\* the person is in the department the command takes them from
InSource(o, parts) == parts[4] \in DOMAIN o /\ parts[2] \in o[parts[4]]

\* the command can be executed on the table
Executable(o, parts) ==
    \/ IsAdd(parts)
    \/ IsRemove(parts) /\ InSource(o, parts)
    \/ IsMove(parts) /\ InSource(o, parts)

OrganizeRule(o, parts, after) ==
    /\ NoEmptyDepartment(after)
    /\ ~Executable(o, parts) => after = o
    /\ IsMove(parts) /\ parts[4] = parts[6] => after = o

\* C23: after any sequence of Add, Remove and Move commands every department
\* in the table has a non-empty set, and a command that cannot be executed
\* (Remove of an absent person, Move of a person who is not in the source,
\* a malformed line) leaves the table unchanged, as does a Move whose source
\* is its destination
C23_NoEmptyDepartment == [][OrganizeRule(org, org_cmd', org')]_vars

\* Amir, alone in Sales, was moved from Sales to Sales and is still there
C23_Witness ==
    /\ org_cmd = MoveCmd("Amir", "Sales", "Sales")
    /\ org = ("Sales" :> {"Amir"})

\* a Move emptied its source department, which left the table
C23_MoveWitness ==
    /\ org_cmd = MoveCmd("Amir", "Sales", "Library")
    /\ org = ("Library" :> {"Amir", "Sally"})

(***************************************************************************)
(* The calculator again: order of evaluation, self-reference, parentheses,  *)
(* the parser's defensive errors, the `$k` names, and the frame of a       *)
(* command.                                                                *)
(***************************************************************************)
\* the BinOp nodes of an expression
RECURSIVE BinOpNodes(_)
BinOpNodes(e) ==
    IF e.tag # "BinOp" THEN {} ELSE {e} \cup BinOpNodes(e.lhs) \cup BinOpNodes(e.rhs)

\* a BinOp node whose operands evaluate to left and right evaluates to whole
OperandOrder(op, left, right, whole) ==
    /\ left.tag = "Err" => whole = left
    /\ left.tag = "Ok" /\ right.tag = "Err" => whole = right
    /\ left.tag = "Ok" /\ right.tag = "Ok" /\ whole.tag = "Err" =>
          op = "Divide" /\ right.val = Zero /\ whole = DivisionByZero

OrderRule(self, e) ==
    OperandOrder(e.op, calc_expression(self, e.lhs), calc_expression(self, e.rhs),
                 calc_expression(self, e))

\* C24: in the context a command is evaluated in, every BinOp node of its
\* expression fails with the failure of its left operand if that fails,
\* otherwise with the failure of its right operand if that fails, and with
\* the division error only when both operands have a value; the failure the
\* command returns is the one of its whole expression
C24_LeftBeforeRight ==
    [][ command'.tag = "Ok" =>
            /\ \A e \in BinOpNodes(command'.val.expression) :
                  OrderRule(Context(anonymous_counter, variables), e)
            /\ result'.tag = "Err" =>
                  result' = calc_expression(Context(anonymous_counter, variables),
                                            command'.val.expression) ]_vars

\* x + 2 / 0 with x unbound: both operands of the sum fail, the left one is reported
C24_Witness ==
    /\ line = V("x") \o <<ADD>> \o N("2") \o <<DIV>> \o N("0")
    /\ result = UndefinedVariable("x")

\* 2 / 0 + x with x unbound: the division is the left operand and is reported
C24_DivisionFirst ==
    /\ line = N("2") \o <<DIV>> \o N("0") \o <<ADD>> \o V("x")
    /\ result = DivisionByZero

\* calc_command returned ret for a command whose expression has `value` in
\* the context the command found
ReturnsValue(value, ret) ==
    IF value.tag = "Ok" THEN ret.tag = "Ok" /\ ret.val[2] = value.val ELSE ret = value

\* the command is evaluated on the bindings it found
EvaluatedBefore(self, cmd, ret) == ReturnsValue(calc_expression(self, cmd.expression), ret)

\* a command whose target occurs in its expression and is not bound fails and
\* leaves the target unbound
SelfReference(bindings, cmd, ret, bindings_after) ==
    /\ cmd.variable # None
    /\ cmd.variable[1] \in VariablesOf(cmd.expression) \ DOMAIN bindings
    => ret.tag = "Err" /\ cmd.variable[1] \notin DOMAIN bindings_after

\* v = v + 1: v + 1 is computed from the v that was bound, or v is undefined
Increment(bindings, ret, bindings_after) ==
    IF "v" \in DOMAIN bindings
    THEN Ok(bindings_after["v"]) = FAdd(bindings["v"], One)
    ELSE ret = UndefinedVariable("v") /\ "v" \notin DOMAIN bindings_after

\* a command without a target that reads the name it is about to receive
ReadsOwnName(self) ==
    calc_command(self, Command(None, EVariable(DollarName(self.anonymous_counter))))

OwnNameUnbound(self, out) ==
    /\ out.ret = UndefinedVariable(DollarName(self.anonymous_counter))
    /\ out.self.variables = self.variables

\* C25: the value a command returns is the value of its expression on the
\* bindings as they were before the command; `v = v + 1` rebinds v to one more
\* than it was bound to, and with v unbound fails with UndefinedVariable and
\* leaves v unbound, like every command whose target occurs unbound in its
\* expression; and a command without a target that reads the `$N` it is
\* about to be named fails with UndefinedVariable
C25_EvaluatedBeforeBinding ==
    [][ /\ command'.tag = "Ok" =>
              /\ EvaluatedBefore(Context(anonymous_counter, variables), command'.val, result')
              /\ SelfReference(variables, command'.val, result', variables')
        /\ line' = V("v") \o <<ASSIGN>> \o V("v") \o <<ADD>> \o N("1") =>
              Increment(variables, result', variables')
        /\ OwnNameUnbound(Context(anonymous_counter, variables),
                          ReadsOwnName(Context(anonymous_counter, variables))) ]_vars

\* v = 3 - 2 and then v = v + 1: v is 2
C25_Witness ==
    /\ line = V("v") \o <<ASSIGN>> \o V("v") \o <<ADD>> \o N("1")
    /\ result = Ok(<<"v", <<2, 1>>>>)
    /\ variables = ("v" :> <<2, 1>>)

\* v = v + 1 as the first command: v is undefined and stays unbound
C25_UnboundWitness ==
    /\ line = V("v") \o <<ASSIGN>> \o V("v") \o <<ADD>> \o N("1")
    /\ result = UndefinedVariable("v")
    /\ nlines = 1 /\ variables = <<>>

\* the position of the first opening parenthesis of a line that has one
FirstOpen(ln) ==
    CHOOSE i \in 1..Len(ln) :
        ln[i].rule = "lparen" /\ \A k \in 1..(i - 1) : ln[k].rule # "lparen"

\* the position, from i on, of the closing parenthesis that is not matched by
\* an opening one at or after i, `depth` of those being open
RECURSIVE Closing(_, _, _)
Closing(ln, i, depth) ==
    IF ln[i].rule = "rparen" /\ depth = 0 THEN i
    ELSE Closing(ln, i + 1,
                 CASE ln[i].rule = "lparen" -> depth + 1
                   [] ln[i].rule = "rparen" -> depth - 1
                   [] OTHER -> depth)

\* e with every Variable(name) replaced by the expression `by`
RECURSIVE Subst(_, _, _)
Subst(e, name, by) ==
    CASE e.tag = "Num" -> e
      [] e.tag = "Variable" -> IF e.name = name THEN by ELSE e
      [] e.tag = "BinOp" -> EBinOp(e.op, Subst(e.lhs, name, by), Subst(e.rhs, name, by))

\* an identifier no line uses, standing for a parenthesised sub-expression
Marker == "p"

\* the command of the line around the parentheses with the tree of what is
\* between them in the place of the marker
Plugged(around, between) ==
    IF around.tag = "Ok" /\ between.tag = "Ok"
    THEN Ok(Command(around.val.variable,
                    Subst(around.val.expression, Marker, between.val.expression)))
    ELSE Err("syntax error")

\* the parentheses at i and j of ln enclose one atom of its command
OneAtom(ln, i, j, cmd) ==
    cmd = Plugged(parse_command(SubSeq(ln, 1, i - 1) \o <<Var(<<Marker>>)>>
                                \o SubSeq(ln, j + 1, Len(ln))),
                  parse_command(SubSeq(ln, i + 1, j - 1)))

FirstGroup(ln, i, cmd) == OneAtom(ln, i, Closing(ln, i + 1, 0), cmd)

E2 == ENum(<<2, 1>>)
E3 == ENum(<<3, 1>>)

\* the examples of the parser specification, with the numbers 2 and 3
ParenExamples(ln, cmd) ==
    /\ ln = <<LP>> \o N("2") \o <<ADD>> \o N("3") \o <<RP, MUL>> \o N("3") =>
          cmd = Ok(Command(None, EBinOp("Multiply", EBinOp("Add", E2, E3), E3)))
    /\ ln = N("2") \o <<SUB, LP>> \o N("3") \o <<SUB>> \o N("2") \o <<RP>> =>
          cmd = Ok(Command(None, EBinOp("Subtract", E2, EBinOp("Subtract", E3, E2))))
    /\ ln = <<LP>> \o N("2") \o <<POW>> \o N("3") \o <<RP, POW>> \o N("2") =>
          cmd = Ok(Command(None, EBinOp("Power", EBinOp("Power", E2, E3), E2)))

\* C26: the command of an accepted line with parentheses is the command of
\* the line with its first parenthesised group replaced by one identifier, in
\* which the tree of the group's content takes the place of that identifier,
\* whatever operators surround the group and whatever the group contains;
\* so (2 + 3) * 3 is Multiply(Add(2,3), 3), 2 - (3 - 2) is
\* Subtract(2, Subtract(3,2)) and (2 ^ 3) ^ 2 is Power(Power(2,3), 2)
C26_ParenthesesAsAtom ==
    /\ command.tag = "Ok" /\ (\E i \in 1..Len(line) : line[i].rule = "lparen") =>
          FirstGroup(line, FirstOpen(line), command)
    /\ ParenExamples(line, command)

\* (2 ^ 3) ^ 2 has been parsed: the parentheses override the right
\* associativity of the power operator
C26_Witness ==
    /\ line = <<LP>> \o N("2") \o <<POW>> \o N("3") \o <<RP, POW>> \o N("2")
    /\ command = Ok(Command(None, EBinOp("Power", EBinOp("Power", E2, E3), E2)))

\* parentheses nested twice: ((2 + 3) * 2) ^ 3
C26_NestedWitness ==
    /\ line = <<LP, LP>> \o N("2") \o <<ADD>> \o N("3") \o <<RP, MUL>> \o N("2") \o <<RP, POW>> \o N("3")
    /\ command = Ok(Command(None, EBinOp("Power", EBinOp("Multiply", EBinOp("Add", E2, E3), E2), E3)))

\* what the resolver returns, or how pest's climber ends, when the pairs are
\* not what the resolver expects
DefensiveFaults ==
    {Err("unexpected operator rule"), Err("unexpected primary"), Err("expected expr"),
     Err("unexpected command shape"), Err("empty parse result"), Panic}

\* the rules of a sequence of pairs
Rules(pairs) == [i \in 1..Len(pairs) |-> pairs[i].rule]

\* a line the grammar accepts has the top-level pairs [expr] or [var, expr]
\* and gets a Command
TopShape(parsed, cmd) ==
    parsed.tag = "Ok" =>
        /\ Rules(TopPairs(parsed.pairs)) \in {<<"expr">>, <<"var", "expr">>}
        /\ cmd.tag = "Ok"

\* C27: parse_command never fails with an unexpected operator rule, an
\* unexpected primary, an 'expected expr' mismatch, an unexpected command
\* shape or an empty parse result, and the climber never panics: a line the
\* grammar accepts has the top-level pairs [expr] or [var, expr] and gets a
\* Command, and any other line gets the grammar's own error
C27_NoDefensiveFault ==
    nlines > 0 =>
        /\ command \notin DefensiveFaults
        /\ command.tag = "Err" => command = Err("syntax error")
        /\ TopShape(SyntaxParser_parse(line), command)

\* x = 2 ^ 3 has been parsed: the top-level pairs were [var, expr] and the
\* operator rule was the last arm of rule_to_binop
C27_Witness ==
    /\ line = V("x") \o <<ASSIGN>> \o N("2") \o <<POW>> \o N("3")
    /\ command = Ok(Command(Some("x"), EBinOp("Power", E2, E3)))

\* the identifiers of the lines of a session: the names a command can be
\* given through the parser
SessionNames ==
    UNION {{AsString(ln[i].text) : i \in {j \in 1..Len(ln) : ln[j].rule = "var"}} :
           ln \in SessionLines}

\* the name the next command without a target receives
NextName(named) == named.name

\* C28: in every reachable context of a session, a binding whose name is not
\* an identifier of a line is `$k` with k < anonymous_counter, so the name
\* the next anonymous command receives, `$` followed by the counter, is not
\* bound and that command overwrites nothing
C28_DollarNamesBelowCounter ==
    /\ \A name \in DOMAIN variables \ SessionNames :
          \E k \in 0..(anonymous_counter - 1) : name = DollarName(k)
    /\ NextName(NameResult(Context(anonymous_counter, variables), Command(None, ENum(Zero))))
          \notin DOMAIN variables

\* two anonymous commands around a failed one: $0 and $2 are bound, the counter is 3
C28_Witness ==
    /\ anonymous_counter = 3
    /\ DOMAIN variables = {"$0", "$2"}
    /\ result.tag = "Ok" /\ result.val[1] = "$2"

\* the bindings after a command that found `bindings` and returned ret
FrameRule(bindings, ret, bindings_after) ==
    IF ret.tag = "Ok"
    THEN /\ DOMAIN bindings_after = DOMAIN bindings \cup {ret.val[1]}
         /\ bindings_after[ret.val[1]] = ret.val[2]
         /\ \A key \in DOMAIN bindings \ {ret.val[1]} : bindings_after[key] = bindings[key]
    ELSE bindings_after = bindings

\* the counter after a command is the counter after naming its result: the
\* evaluation of the expression did not touch it
CounterAfterNaming(named, counter_after) == counter_after = named.self.anonymous_counter

\* C29: a successful command returns (name, value), binds name to value and
\* leaves every binding under another key as it was; a failed command leaves
\* all bindings as they were; and the counter after a command is what the
\* naming made it, so evaluating the expression changes neither the bindings
\* nor the counter
C29_OneBindingChanges ==
    [][ command'.tag = "Ok" =>
            /\ FrameRule(variables, result', variables')
            /\ CounterAfterNaming(NameResult(Context(anonymous_counter, variables),
                                             command'.val),
                                  anonymous_counter') ]_vars

\* `3`, `0 - 3`, `v = 0`: the third command bound v and left $0 and $1 alone
C29_Witness ==
    /\ nlines = 3 /\ result.tag = "Ok" /\ result.val[1] = "v"
    /\ variables = ("$0" :> <<3, 1>> @@ "$1" :> <<-3, 1>> @@ "v" :> <<0, 1>>)

(***************************************************************************)
(* assignment11/linked_list.rs: SinglyLinkedList. The list is its head, an  *)
(* Option of a node; a node is its value and the Option of the next node.   *)
(***************************************************************************)
\* nodes in a list
MaxNodes == 4

\* the values pushed
Elems == {"a", "b"}

Node(value, next) == [value |-> value, next |-> next]

\* SinglyLinkedList::new(): head is None
SinglyLinkedList_new == None

\* push_front: the new node takes the old head as its next and becomes the head
push_front(self, value) == Some(Node(value, self))

\* push_back, the list not empty: the cursor moves along `next` to the first
\* None, and the new node is put there
RECURSIVE Attach(_, _)
Attach(cursor, new_node) ==
    IF cursor = None THEN Some(new_node)
    ELSE Some(Node(cursor[1].value, Attach(cursor[1].next, new_node)))

push_back(self, value) ==
    IF self = None THEN Some(Node(value, None))
    ELSE Some(Node(self[1].value, Attach(self[1].next, Node(value, None))))

\* what a pop leaves and returns
Popped(self, ret) == [self |-> self, ret |-> ret]

pop_front(self) ==
    IF self = None THEN Popped(self, None)
    ELSE Popped(self[1].next, Some(self[1].value))

\* the node before the cursor, in front of what the walk behind it left
Relink(value, taken) == Popped(Some(Node(value, taken.self)), taken.ret)

\* pop_back, more than one node: the cursor moves while its node has a next,
\* then the node is taken out of the cursor
RECURSIVE TakeLast(_)
TakeLast(cursor) ==
    IF cursor[1].next # None
    THEN Relink(cursor[1].value, TakeLast(cursor[1].next))
    ELSE Popped(None, Some(cursor[1].value))

\* a pop_back that takes the node at the front
pop_back_front(self) == pop_front(self)

pop_back(self) ==
    IF self = None THEN Popped(self, None)
    ELSE IF self[1].next = None THEN pop_front(self)
    ELSE Relink(self[1].value, TakeLast(self[1].next))

\* from_vec: push_back of every element, in order, on a new list
RECURSIVE PushAll(_, _, _)
PushAll(new_list, vec, i) ==
    IF i > Len(vec) THEN new_list ELSE PushAll(push_back(new_list, vec[i]), vec, i + 1)

from_vec(vec) == PushAll(SinglyLinkedList_new, vec, 1)

\* into_vec: the values from the head on
RECURSIVE Collect(_, _)
Collect(current, ret) ==
    IF current = None THEN ret ELSE Collect(current[1].next, Append(ret, current[1].value))

into_vec(self) == Collect(self, <<>>)

\* length: the nodes from the head on
RECURSIVE CountNodes(_, _)
CountNodes(current, len) ==
    IF current = None THEN len ELSE CountNodes(current[1].next, len + 1)

length(self) == CountNodes(self, 0)

\* the same operations on a sequence
RefPopFront(s) == IF s = <<>> THEN Popped(s, None) ELSE Popped(Tail(s), Some(Head(s)))
RefPopBack(s) ==
    IF s = <<>> THEN Popped(s, None) ELSE Popped(SubSeq(s, 1, Len(s) - 1), Some(s[Len(s)]))

\* the vectors given to from_vec
ElemVecs == UNION {[1..n -> Elems] : n \in 0..MaxNodes}

ListCall(op, arg, self_after, ret, ref_after, reference_ret) ==
    /\ list_head' = self_after
    /\ list_ret' = Ret(ret)
    /\ list_ref' = ref_after
    /\ ref_ret' = Ret(reference_ret)
    /\ list_call' = [op |-> op, arg |-> arg]
    /\ UNCHANGED <<calc_vars, storage_vars, graph_vars, exercise_vars, organize_vars>>

PopCall(op, out, ref_out) == ListCall(op, "none", out.self, out.ret, ref_out.self, ref_out.ret)

\* list.push_front(value), while the list has room
PushFront ==
    /\ Len(list_ref) < MaxNodes
    /\ \E value \in Elems :
          ListCall("push_front", value, push_front(list_head, value), <<>>,
                   <<value>> \o list_ref, <<>>)

\* list.push_back(value), while the list has room
PushBack ==
    /\ Len(list_ref) < MaxNodes
    /\ \E value \in Elems :
          ListCall("push_back", value, push_back(list_head, value), <<>>,
                   Append(list_ref, value), <<>>)

\* list.pop_front()
PopFront == PopCall("pop_front", pop_front(list_head), RefPopFront(list_ref))

\* list.pop_back()
PopBack == PopCall("pop_back", pop_back(list_head), RefPopBack(list_ref))

\* list.length()
Length == ListCall("length", "none", list_head, length(list_head), list_ref, Len(list_ref))

\* list.into_vec(): the list is consumed, the run goes on with a new one
IntoVec ==
    ListCall("into_vec", "none", SinglyLinkedList_new, into_vec(list_head), <<>>, list_ref)

\* SinglyLinkedList::from_vec(vec).into_vec(), and the run goes on with from_vec(vec)
FromVec ==
    \E vec \in ElemVecs :
        ListCall("from_vec", vec, from_vec(vec), into_vec(from_vec(vec)), vec, vec)

NextList == PushFront \/ PushBack \/ PopFront \/ PopBack \/ Length \/ IntoVec \/ FromVec

\* any sequence of calls on a list
SpecList == Init /\ [][NextList]_vars

\* C30: under any interleaving of push_front, push_back, pop_front and
\* pop_back from the empty list, every call returns what the same call
\* returns on the reference sequence (pop_front the first element, pop_back
\* the last, None on the empty list; length the number of elements; into_vec
\* the sequence), the list holds the reference sequence in order, and
\* from_vec followed by into_vec returns the vector given
C30_RefinesSequence ==
    /\ list_ret = ref_ret
    /\ into_vec(list_head) = list_ref
    /\ length(list_head) = Len(list_ref)

\* pop_back on a, b, a: the last a was returned and a, b is left
C30_Witness ==
    /\ list_call.op = "pop_back"
    /\ list_ret = Ret(Some("a"))
    /\ list_head = Some(Node("a", Some(Node("b", None))))

\* a pop on the empty list returned None and left it empty
C30_EmptyWitness ==
    /\ list_call.op \in {"pop_front", "pop_back"}
    /\ list_ret = Ret(None)
    /\ list_head = None

=============================================================================
